---- MODULE Spec2Model ----
(***************************************************************************)
(* markdown-finder: the query compiler (Parser), the qualifier registry    *)
(* (Mixin, getDefaultQualifiers) and the streaming evaluator (Finder).     *)
(*                                                                         *)
(* Representation.                                                         *)
(*  - A text (operand, file data, path) is a sequence of one-character     *)
(*    strings, so that includes / split / trim / toLowerCase are computed. *)
(*  - A query is the sequence of the matches that its text gives to the    *)
(*    tokenizer regex (String.prototype.matchAll): each match is the       *)
(*    record of its non-null named groups, with the text as written.       *)
(*  - An AST node is a record; a leaf has the fields scope and operator    *)
(*    only once _setQualifier has assigned them; `undefined` is Undef.     *)
(***************************************************************************)
EXTENDS Naturals, Integers, Sequences, FiniteSets, TLC

\* ------------------------------------------------------------------ bounds

\* Longest enumerated sequence of regex matches of a query.
MaxTokens == 5

\* ------------------------------------------------------------- parser: TYPE

OR == "OR"
AND == "AND"
NOT == "NOT"
PAREN_OPEN == "PAREN_OPEN"
PAREN_CLOSE == "PAREN_CLOSE"
KEYWORD == "KEYWORD"
PHRASE == "PHRASE"
REGEXP == "REGEXP"
QUALIFIER == "QUALIFIER"

TYPE == {OR, AND, NOT, PAREN_OPEN, PAREN_CLOSE, KEYWORD, PHRASE, REGEXP, QUALIFIER}

\* The value `undefined` where the code holds a node or a token.
Undef == [type |-> "undefined"]

NoError == ""

\* Parser.INVALID_POSITION.FIRST
FIRST == {OR, AND, PAREN_CLOSE}

LAST_noQualifier == {OR, AND, NOT, PAREN_OPEN}

\* Parser.INVALID_POSITION.LAST
LAST == {OR, AND, NOT, PAREN_OPEN, QUALIFIER}

\* Parser.INVALID_POSITION.FOLLOW
FOLLOW ==
    [t \in {OR, AND, NOT, PAREN_OPEN, QUALIFIER} |->
        CASE t = OR -> {OR, AND, PAREN_CLOSE}
          [] t = AND -> {OR, AND, PAREN_CLOSE}
          [] t = NOT -> {OR, AND, NOT, PAREN_CLOSE}
          [] t = PAREN_OPEN -> {OR, AND, PAREN_CLOSE}
          [] t = QUALIFIER -> {OR, AND, NOT, PAREN_CLOSE, QUALIFIER}]

AND_PREV_noQualifier == {OR, AND, NOT, PAREN_OPEN}

\* Parser.INVALID_POSITION.AND.PREV
AND_PREV == {OR, AND, NOT, PAREN_OPEN, QUALIFIER}

AND_NEXT_noNot == {OR, AND, PAREN_CLOSE}

\* Parser.INVALID_POSITION.AND.NEXT
AND_NEXT == {OR, AND, NOT, PAREN_CLOSE}

\* ------------------------------------------------------- parser: tokenize

filterAnd_keepAll(all) == all

\* The .filter of tokenize: an AND token is kept unless its neighbour in the
\* unfiltered array is in AND.PREV (before it) or AND.NEXT (after it).
filterAnd(all) ==
    LET keep(i) ==
            \/ all[i].type # AND
            \/ /\ (i > 1 => all[i - 1].type \notin AND_PREV)
               /\ (i < Len(all) => all[i + 1].type \notin AND_NEXT)
        F[i \in 0..Len(all)] ==
            IF i = 0 THEN <<>>
            ELSE IF keep(i) THEN Append(F[i - 1], all[i]) ELSE F[i - 1]
    IN F[Len(all)]

\* ---------------------------------------------------------- parser: check

\* The index of the first token that is followed by a token of its FOLLOW
\* set, 0 when there is none (the forEach of "check follow").
FirstBadFollow(tokens) ==
    LET bad == {i \in 1..(Len(tokens) - 1) :
                    /\ tokens[i].type \in DOMAIN FOLLOW
                    /\ tokens[i + 1].type \in FOLLOW[tokens[i].type]}
    IN IF bad = {} THEN 0 ELSE CHOOSE i \in bad : \A j \in bad : i <= j

\* The running balance of "check parentheses" after the first i tokens, -1
\* once it went negative (the throw inside the forEach).
RECURSIVE Balance(_, _)
Balance(tokens, i) ==
    IF i = 0 THEN 0
    ELSE LET b == Balance(tokens, i - 1) IN
         IF b < 0 THEN b
         ELSE IF tokens[i].type = PAREN_OPEN THEN b + 1
         ELSE IF tokens[i].type = PAREN_CLOSE THEN b - 1
         ELSE b

check_noFinalBalance(tokens) ==
    IF tokens = <<>> THEN "TypeError"
    ELSE IF tokens[1].type \in FIRST THEN "Invalid first token"
    ELSE IF tokens[Len(tokens)].type \in LAST THEN "Invalid last token"
    ELSE IF FirstBadFollow(tokens) # 0 THEN "Invalid token sequence"
    ELSE IF Balance(tokens, Len(tokens)) < 0 THEN "Unmatched PAREN_CLOSE"
    ELSE NoError

\* Parser.check: the error it throws, NoError when it returns.
check(tokens) ==
    IF tokens = <<>> THEN "TypeError"
    ELSE IF tokens[1].type \in FIRST THEN "Invalid first token"
    ELSE IF tokens[Len(tokens)].type \in LAST THEN "Invalid last token"
    ELSE IF FirstBadFollow(tokens) # 0 THEN "Invalid token sequence"
    ELSE IF Balance(tokens, Len(tokens)) < 0 THEN "Unmatched PAREN_CLOSE"
    ELSE IF Balance(tokens, Len(tokens)) # 0 THEN "Unmatched PAREN_OPEN"
    ELSE NoError

\* ---------------------------------------------------------- parser: parse

IsLeafType(t) == t \in {KEYWORD, PHRASE, REGEXP}

\* What a _parse* method leaves: the node it returns and the tokens it has
\* not shifted, or the error it throws.
Ret(node, rest) == [err |-> NoError, node |-> node, rest |-> rest]
Throw(e) == [err |-> e, node |-> Undef, rest |-> <<>>]

DefaultQualifier == [type |-> QUALIFIER, scope |-> "default", operator |-> ":"]

isDefault_always(node) == TRUE

isDefault_absentOnly(node) == "scope" \notin DOMAIN node

\* _setQualifier: const isDefault = !node.scope || node.scope === "default"
isDefault(node) == "scope" \notin DOMAIN node \/ node.scope = "default"

RECURSIVE _setQualifier(_, _)
_setQualifier(node, qualifier) ==
    IF node = Undef THEN Undef
    ELSE IF IsLeafType(node.type) /\ isDefault(node)
    THEN [type |-> node.type, operand |-> node.operand,
          scope |-> qualifier.scope, operator |-> qualifier.operator]
    ELSE IF IsLeafType(node.type) THEN node
    ELSE [type |-> node.type,
          left |-> _setQualifier(node.left, qualifier),
          right |-> _setQualifier(node.right, qualifier)]

RECURSIVE _parseExpression(_), _parseTerm(_), _parseFactor(_), _parseMatch(_)
RECURSIVE ExpressionLoop(_, _), TermLoop(_, _), TermLoop_flat(_, _)

_parseMatch(tokens) ==
    IF tokens = <<>> THEN Throw("TypeError")
    ELSE LET type == tokens[1].type IN
         IF IsLeafType(type)
         THEN Ret([type |-> type, operand |-> tokens[1].operand], Tail(tokens))
         ELSE IF type = PAREN_OPEN
         THEN LET e == _parseExpression(Tail(tokens)) IN
              IF e.err # NoError THEN e
              ELSE IF e.rest = <<>> THEN Throw("TypeError")
              ELSE IF e.rest[1].type # PAREN_CLOSE THEN Throw("Unmatched PAREN_OPEN")
              ELSE Ret(e.node, Tail(e.rest))
         ELSE Ret(Undef, tokens)

_parseFactor(tokens) ==
    IF tokens = <<>> THEN Throw("TypeError")
    ELSE LET has == tokens[1].type = QUALIFIER
             qualifier == IF has THEN tokens[1] ELSE DefaultQualifier
             m == _parseMatch(IF has THEN Tail(tokens) ELSE tokens)
         IN IF m.err # NoError THEN m
            ELSE Ret(_setQualifier(m.node, qualifier), m.rest)

TermLoop_flat(node, tokens) ==
    IF tokens # <<>> /\ tokens[1].type \in {NOT, AND, OR}
    THEN LET right == _parseFactor(Tail(tokens)) IN
         IF right.err # NoError THEN right
         ELSE TermLoop_flat([type |-> tokens[1].type, left |-> node, right |-> right.node],
                            right.rest)
    ELSE Ret(node, tokens)

\* The while loop of _parseTerm, entered with the node built so far.
TermLoop(node, tokens) ==
    IF tokens # <<>> /\ tokens[1].type \in {NOT, AND}
    THEN LET right == _parseFactor(Tail(tokens)) IN
         IF right.err # NoError THEN right
         ELSE TermLoop([type |-> tokens[1].type, left |-> node, right |-> right.node],
                       right.rest)
    ELSE Ret(node, tokens)

_parseTerm(tokens) ==
    LET f == _parseFactor(tokens) IN
    IF f.err # NoError THEN f ELSE TermLoop(f.node, f.rest)

\* The while loop of _parseExpression.
ExpressionLoop(node, tokens) ==
    IF tokens # <<>> /\ tokens[1].type = OR
    THEN LET right == _parseTerm(Tail(tokens)) IN
         IF right.err # NoError THEN right
         ELSE ExpressionLoop([type |-> OR, left |-> node, right |-> right.node],
                             right.rest)
    ELSE Ret(node, tokens)

_parseExpression(tokens) ==
    LET t == _parseTerm(tokens) IN
    IF t.err # NoError THEN t ELSE ExpressionLoop(t.node, t.rest)

\* Parser.parse from the tokens that tokenize returned.
parseTokens(tokens) ==
    IF Len(tokens) = 0 THEN Throw("Parse error. Empty tokens")
    ELSE IF check(tokens) # NoError THEN Throw(check(tokens))
    ELSE LET e == _parseExpression(tokens) IN
         IF e.err # NoError THEN e
         ELSE IF e.rest # <<>> THEN Throw("Parse error. Failed to parse tokens")
         ELSE e

\* ------------------------------------------------------ parser: AST walker

\* The leaves of a node, left to right; a leaf is the whole node record.
RECURSIVE LeafSeq(_)
LeafSeq(node) ==
    IF node = Undef THEN <<>>
    ELSE IF IsLeafType(node.type) THEN <<node>>
    ELSE IF node.type \in {OR, AND, NOT} THEN LeafSeq(node.left) \o LeafSeq(node.right)
    ELSE <<>>

Range(s) == {s[i] : i \in DOMAIN s}

\* What _eval leaves: the error it throws or the value it returns, and the
\* leaves the callback was called on, in call order.
EvalRet(val, calls) == [err |-> NoError, val |-> val, calls |-> calls]
EvalThrow(e, calls) == [err |-> e, val |-> FALSE, calls |-> calls]

UnknownNode_ignored(type) == EvalRet(FALSE, <<>>)

\* default: throw new Error(`Unknown AST node`)
UnknownNode(type) == EvalThrow("Unknown AST node", <<>>)

NoLeft_false == EvalRet(FALSE, <<>>)

\* case NOT: (left ? _eval(left) : true), when left is undefined
NoLeft == EvalRet(TRUE, <<>>)

RECURSIVE _eval_eager(_, _)
_eval_eager(node, callback) ==
    IF node = Undef THEN EvalThrow("TypeError", <<>>)
    ELSE IF IsLeafType(node.type) THEN EvalRet(callback[node], <<node>>)
    ELSE IF node.type \in {OR, AND, NOT}
    THEN LET l == IF node.type = NOT /\ node.left = Undef THEN NoLeft
                  ELSE _eval_eager(node.left, callback)
             r == _eval_eager(node.right, callback)
         IN [err |-> IF l.err # NoError THEN l.err ELSE r.err,
             val |-> CASE node.type = OR -> l.val \/ r.val
                       [] node.type = AND -> l.val /\ r.val
                       [] node.type = NOT -> l.val /\ ~r.val,
             calls |-> l.calls \o r.calls]
    ELSE EvalThrow("Unknown AST node", <<>>)

RECURSIVE _eval(_, _)
_eval(node, callback) ==
    IF node = Undef THEN EvalThrow("TypeError", <<>>)
    ELSE IF IsLeafType(node.type) THEN EvalRet(callback[node], <<node>>)
    ELSE IF node.type = OR
    THEN LET l == _eval(node.left, callback) IN
         IF l.err # NoError \/ l.val THEN l
         ELSE LET r == _eval(node.right, callback) IN
              [err |-> r.err, val |-> r.val, calls |-> l.calls \o r.calls]
    ELSE IF node.type = AND
    THEN LET l == _eval(node.left, callback) IN
         IF l.err # NoError \/ ~l.val THEN l
         ELSE LET r == _eval(node.right, callback) IN
              [err |-> r.err, val |-> r.val, calls |-> l.calls \o r.calls]
    ELSE IF node.type = NOT
    THEN LET l == IF node.left # Undef THEN _eval(node.left, callback) ELSE NoLeft IN
         IF l.err # NoError \/ ~l.val THEN l
         ELSE LET r == _eval(node.right, callback) IN
              [err |-> r.err, val |-> (r.err = NoError /\ ~r.val),
               calls |-> l.calls \o r.calls]
    ELSE UnknownNode(node.type)

\* Parser.evaluate
evaluate(ast, callback) == _eval(ast, callback)

\* Parser.traverse: the leaves the callback is called on, in call order, and
\* the error thrown on the way (the callback itself does not throw here).
RECURSIVE traverse_rightFirst(_)
traverse_rightFirst(node) ==
    IF node = Undef THEN EvalThrow("TypeError", <<>>)
    ELSE IF IsLeafType(node.type) THEN EvalRet(TRUE, <<node>>)
    ELSE IF node.type \in {OR, AND, NOT}
    THEN LET l == IF node.type = NOT /\ node.left = Undef THEN EvalRet(TRUE, <<>>)
                  ELSE traverse_rightFirst(node.left)
             r == traverse_rightFirst(node.right)
         IN [err |-> IF r.err # NoError THEN r.err ELSE l.err, val |-> TRUE,
             calls |-> r.calls \o l.calls]
    ELSE EvalThrow("Unknown AST node", <<>>)

RECURSIVE traverse(_)
traverse(node) ==
    IF node = Undef THEN EvalThrow("TypeError", <<>>)
    ELSE IF IsLeafType(node.type) THEN EvalRet(TRUE, <<node>>)
    ELSE IF node.type \in {OR, AND, NOT}
    THEN LET l == IF node.type = NOT /\ node.left = Undef THEN EvalRet(TRUE, <<>>)
                  ELSE traverse(node.left) IN
         IF l.err # NoError THEN l
         ELSE LET r == traverse(node.right) IN
              [err |-> r.err, val |-> TRUE, calls |-> l.calls \o r.calls]
    ELSE UnknownNode(node.type)

\* ------------------------------------------------------------------ texts

\* String.prototype.toLowerCase on one character, and on the spelling of a
\* scope or of the words AND and OR (the strings the model writes in upper
\* case); every other string is its own lower case.
UpperLower ==
    {<<"A", "a">>, <<"B", "b">>, <<"D", "d">>, <<"E", "e">>, <<"F", "f">>, <<"G", "g">>,
     <<"K", "k">>, <<"L", "l">>, <<"M", "m">>, <<"N", "n">>, <<"O", "o">>, <<"R", "r">>,
     <<"S", "s">>, <<"T", "t">>, <<"U", "u">>,
     <<"DEFAULT", "default">>, <<"PATH", "path">>, <<"FILE", "file">>, <<"EXT", "ext">>,
     <<"CONTENT", "content">>, <<"TIME", "time">>, <<"SIZE", "size">>, <<"Size", "size">>,
     <<"LINENUM", "linenum">>, <<"CHARNUM", "charnum">>, <<"CHINESENUM", "chinesenum">>,
     <<"CRLF", "crlf">>, <<"HASIMAGE", "hasimage">>, <<"HASCHINESE", "haschinese">>,
     <<"LINE", "line">>, <<"Line", "line">>}

lowerOf(c) == IF \E p \in UpperLower : p[1] = c THEN (CHOOSE p \in UpperLower : p[1] = c)[2] ELSE c

\* String.prototype.toLowerCase on a text
toLowerCase(text) == [i \in DOMAIN text |-> lowerOf(text[i])]

\* String.prototype.includes
includes(a, b) == \E i \in 0..(Len(a) - Len(b)) : SubSeq(a, i + 1, i + Len(b)) = b

Whitespace == {" ", "\n", "\r", "\t"}

\* String.prototype.trim
RECURSIVE trimStart(_), trimEnd(_)
trimStart(text) == IF text # <<>> /\ text[1] \in Whitespace THEN trimStart(Tail(text)) ELSE text
trimEnd(text) ==
    IF text # <<>> /\ text[Len(text)] \in Whitespace
    THEN trimEnd(SubSeq(text, 1, Len(text) - 1)) ELSE text
trim(text) == trimEnd(trimStart(text))

\* String.prototype.split on a one-character separator
RECURSIVE split(_, _)
split(text, sep) ==
    IF \A i \in DOMAIN text : text[i] # sep THEN <<text>>
    ELSE LET i == CHOOSE i \in DOMAIN text : text[i] = sep /\ \A j \in 1..(i - 1) : text[j] # sep
         IN <<SubSeq(text, 1, i - 1)>> \o split(SubSeq(text, i + 1, Len(text)), sep)

Digits == {"0", "1", "2", "3", "4", "5", "6", "7", "8", "9"}
DigitValue(c) == CHOOSE d \in 0..9 : ToString(d) = c
IsDigits(text) == text # <<>> /\ \A i \in DOMAIN text : text[i] \in Digits

RECURSIVE NumberOfDigits(_)
NumberOfDigits(text) ==
    IF text = <<>> THEN 0
    ELSE 10 * NumberOfDigits(SubSeq(text, 1, Len(text) - 1)) + DigitValue(text[Len(text)])

\* new RegExp(source) throws: over the characters the model writes (letters,
\* digits, '.', '-', '(' and ')') a pattern is invalid exactly when its
\* parentheses do not pair.
RECURSIVE ParenDepth(_, _)
ParenDepth(text, i) ==
    IF i = 0 THEN 0
    ELSE LET d == ParenDepth(text, i - 1) IN
         IF d < 0 THEN d
         ELSE IF text[i] = "(" THEN d + 1 ELSE IF text[i] = ")" THEN d - 1 ELSE d
ValidRegExp(source) == ParenDepth(source, Len(source)) = 0

\* RegExp.prototype.test for a source of literal characters
RegExpTest(source, text) == includes(text, source)

\* ------------------------------------------------------------------ Mixin

\* Object.keys(Mixin.OPERATOR)
OPERATORS == <<":", "=", "!=", ">=", "<=", ">", "<">>

\* Mixin.OPERATOR[operator](a, b)
OPERATOR(operator, a, b) ==
    CASE operator = ":" -> includes(a, b)
      [] operator = "=" -> a = b
      [] operator = "!=" -> a # b
      [] operator = ">=" -> a >= b
      [] operator = "<=" -> a <= b
      [] operator = ">" -> a > b
      [] operator = "<" -> a < b

UNITS_decimal == [k |-> 1000, m |-> 1000000, g |-> 1000000000,
                  kb |-> 1000, mb |-> 1000000, gb |-> 1000000000]

\* Mixin.UNITS
UNITS == [k |-> 1024, m |-> 1048576, g |-> 1073741824,
          kb |-> 1024, mb |-> 1048576, gb |-> 1073741824]

\* The unit a text spells, "" when it spells none (the alternation of isSize
\* and the hasOwnProperty of toBytes, after toLowerCase).
UnitOf(text) ==
    LET t == toLowerCase(text) IN
    CASE t = <<"k">> -> "k" [] t = <<"m">> -> "m" [] t = <<"g">> -> "g"
      [] t = <<"k", "b">> -> "kb" [] t = <<"m", "b">> -> "mb" [] t = <<"g", "b">> -> "gb"
      [] OTHER -> ""

\* The length of the longest prefix of digits.
RECURSIVE DigitPrefix(_)
DigitPrefix(text) ==
    IF text # <<>> /\ text[1] \in Digits THEN 1 + DigitPrefix(Tail(text)) ELSE 0

\* ^\d+(\.\d+)?(kb|mb|gb|k|m|g)$ with flag i: the parts of the operand, ok
\* FALSE when it does not match.
SizeParts(operand) ==
    LET n == DigitPrefix(operand)
        afterInt == SubSeq(operand, n + 1, Len(operand))
        hasFrac == Len(afterInt) >= 2 /\ afterInt[1] = "." /\ afterInt[2] \in Digits
        f == IF hasFrac THEN DigitPrefix(Tail(afterInt)) ELSE 0
        unit == IF hasFrac THEN SubSeq(afterInt, f + 2, Len(afterInt)) ELSE afterInt
    IN [ok |-> n > 0 /\ UnitOf(unit) # "",
        int |-> SubSeq(operand, 1, n),
        frac |-> IF hasFrac THEN SubSeq(afterInt, 2, f + 1) ELSE <<>>,
        unit |-> UnitOf(unit)]

\* isNaN(Number(operand)) is false: over the characters the model writes, an
\* optional sign, digits and at most one '.', or nothing at all.
IsNumeric(operand) ==
    LET t == trim(operand)
        u == IF t # <<>> /\ t[1] \in {"-", "+"} THEN Tail(t) ELSE t
        n == DigitPrefix(u)
        r == SubSeq(u, n + 1, Len(u))
    IN \/ t = <<>>
       \/ n > 0 /\ (r = <<>> \/ r = <<".">> \/ (r[1] = "." /\ IsDigits(Tail(r))))
       \/ n = 0 /\ Len(r) >= 2 /\ r[1] = "." /\ IsDigits(Tail(r))

\* isNaN(new Date(operand).getTime()) is false: the model writes dates as
\* 2024-03-DD; a text without any digit is no date.
IsDate(operand) ==
    /\ Len(operand) = 10
    /\ SubSeq(operand, 1, 8) = <<"2", "0", "2", "4", "-", "0", "3", "-">>
    /\ IsDigits(SubSeq(operand, 9, 10))
    /\ NumberOfDigits(SubSeq(operand, 9, 10)) \in 1..31

\* Mixin.VALIDATE: the error thrown, NoError when the validator returns.
isStringOrRegexp(scope, operator, operand, operandType) ==
    IF operandType = REGEXP /\ operator # ":"
    THEN "RegExp operands only support the \":\" operator"
    ELSE IF operandType = REGEXP /\ ~ValidRegExp(operand) THEN "Invalid regular expression"
    ELSE IF operator \notin {":", "=", "!="}
    THEN "Only supports \"=\", \"!=\", and \":\" operators"
    ELSE NoError

isComparable_noColonTest(scope, operator, operand, operandType) ==
    IF operandType = REGEXP THEN "RegExp operands are not valid for comparisons"
    ELSE NoError

isComparable(scope, operator, operand, operandType) ==
    IF operandType = REGEXP THEN "RegExp operands are not valid for comparisons"
    ELSE IF operator = ":" THEN "The \":\" operator is not valid for comparisons"
    ELSE NoError

isBoolean(scope, operator, operand, operandType) ==
    IF operator \notin {"=", "!="}
    THEN "Only supports \"=\" and \"!=\" operators for logical comparisons"
    ELSE IF operandType = REGEXP THEN "RegExp operands are not valid for logical comparisons"
    ELSE IF operand # <<"t", "r", "u", "e">> /\ operand # <<"f", "a", "l", "s", "e">>
    THEN "Operand must be \"true\" or \"false\""
    ELSE NoError

isSize(scope, operator, operand, operandType) ==
    IF isComparable(scope, operator, operand, operandType) # NoError
    THEN isComparable(scope, operator, operand, operandType)
    ELSE IF ~SizeParts(operand).ok THEN "Operand must be a number followed by a unit"
    ELSE NoError

isNumber(scope, operator, operand, operandType) ==
    IF isComparable(scope, operator, operand, operandType) # NoError
    THEN isComparable(scope, operator, operand, operandType)
    ELSE IF ~IsNumeric(operand) THEN "Operand must be a valid number"
    ELSE NoError

isDate(scope, operator, operand, operandType) ==
    IF isComparable(scope, operator, operand, operandType) # NoError
    THEN isComparable(scope, operator, operand, operandType)
    ELSE IF ~IsDate(operand) THEN "Operand must be a valid date string"
    ELSE NoError

VALIDATE(name, scope, operator, operand, operandType) ==
    CASE name = "isStringOrRegexp" -> isStringOrRegexp(scope, operator, operand, operandType)
      [] name = "isComparable" -> isComparable(scope, operator, operand, operandType)
      [] name = "isBoolean" -> isBoolean(scope, operator, operand, operandType)
      [] name = "isSize" -> isSize(scope, operator, operand, operandType)
      [] name = "isNumber" -> isNumber(scope, operator, operand, operandType)
      [] name = "isDate" -> isDate(scope, operator, operand, operandType)

\* Times are counted in minutes since the epoch, in a zone tz minutes east of
\* UTC; a day has MinutesPerDay of them.
MinutesPerDay == 1440

\* 2024-03-01T00:00Z in days since the epoch
DaysToMarch2024 == 19783

\* new Date(operand).getTime() for a date-only text 2024-03-DD: midnight UTC
DateUTC(operand) ==
    (DaysToMarch2024 + NumberOfDigits(SubSeq(operand, 9, 10)) - 1) * MinutesPerDay

\* new Date(t).setHours(0, 0, 0, 0): the local midnight at or before t
truncateTime(t, tz) == ((t + tz) \div MinutesPerDay) * MinutesPerDay - tz

RECURSIVE Pow10(_)
Pow10(n) == IF n = 0 THEN 1 ELSE 10 * Pow10(n - 1)

\* Mixin.CAST; the model writes whole numbers for Number(operand), and sizes
\* whose product with the unit is whole.
toStringOrRegexp(operand, operandType) ==
    IF operandType = REGEXP THEN [regexp |-> operand] ELSE operand

toNumber(operand) ==
    LET t == trim(operand) IN
    IF t = <<>> THEN 0
    ELSE IF t[1] = "-" THEN 0 - NumberOfDigits(Tail(t))
    ELSE IF t[1] = "+" THEN NumberOfDigits(Tail(t))
    ELSE NumberOfDigits(t)

toBoolean(operand) == toLowerCase(operand) = <<"t", "r", "u", "e">>

toBytes(operand) ==
    LET parts == SizeParts(operand) IN
    (NumberOfDigits(parts.int \o parts.frac) * UNITS[parts.unit]) \div Pow10(Len(parts.frac))

toDate(operand, tz) == truncateTime(DateUTC(operand), tz)

CAST(name, operand, operandType, tz) ==
    CASE name = "toStringOrRegexp" -> toStringOrRegexp(operand, operandType)
      [] name = "toNumber" -> toNumber(operand)
      [] name = "toBoolean" -> toBoolean(operand)
      [] name = "toBytes" -> toBytes(operand)
      [] name = "toDate" -> toDate(operand, tz)

\* A query result with its typeof: "string", "array" (of strings), "number"
\* or "boolean".
QV(kind, v) == [kind |-> kind, v |-> v]

\* Mixin.MATCH
primitiveCompare(scope, operator, operand, queryResult) ==
    OPERATOR(operator, queryResult.v, operand)

stringRegexp(scope, operator, operand, queryResult) ==
    RegExpTest(operand.regexp, queryResult.v)

arrayCompare(scope, operator, operand, queryResult) ==
    \E i \in DOMAIN queryResult.v : OPERATOR(operator, queryResult.v[i], operand)

arrayRegexp(scope, operator, operand, queryResult) ==
    \E i \in DOMAIN queryResult.v : RegExpTest(operand.regexp, queryResult.v[i])

MATCH(name, scope, operator, operand, queryResult) ==
    CASE name = "primitiveCompare" -> primitiveCompare(scope, operator, operand, queryResult)
      [] name = "stringRegexp" -> stringRegexp(scope, operator, operand, queryResult)
      [] name = "arrayCompare" -> arrayCompare(scope, operator, operand, queryResult)
      [] name = "arrayRegexp" -> arrayRegexp(scope, operator, operand, queryResult)

\* -------------------------------------------------------------- qualifiers

\* path.extname of a file name
extname(file) ==
    IF \A i \in DOMAIN file : file[i] # "." THEN <<>>
    ELSE LET i == CHOOSE i \in DOMAIN file : file[i] = "." /\ \A j \in (i + 1)..Len(file) : file[j] # "."
         IN IF i = 1 THEN <<>> ELSE SubSeq(file, i, Len(file))

\* The QUERY table of buildBaseQualifiers. The file texts of the model hold
\* no '!', '<' or Han character, so hasimage and haschinese find nothing.
QUERY(name, source, tz) ==
    CASE name = "default" -> QV("string", source.data \o <<"\n">> \o source.path)
      [] name = "path" -> QV("string", source.path)
      [] name = "file" -> QV("string", source.file)
      [] name = "ext" -> QV("string", extname(source.file))
      [] name = "content" -> QV("string", source.data)
      [] name = "time" -> QV("number", truncateTime(source.stats.mtime, tz))
      [] name = "size" -> QV("number", source.stats.size)
      [] name = "linenum" -> QV("number", Len(split(source.data, "\n")))
      [] name = "charnum" -> QV("number", Len(source.data))
      [] name = "crlf" -> QV("boolean", includes(source.data, <<"\r", "\n">>))
      [] name = "hasimage" -> QV("boolean", FALSE)
      [] name = "haschinese" -> QV("boolean", FALSE)
      [] name = "line" ->
            QV("array", [i \in DOMAIN split(source.data, "\n") |-> trim(split(source.data, "\n")[i])])
      [] name = "chinesenum" -> QV("number", 0)

\* setDefault(q)
setDefault(q) ==
    LET kw == IF "match_keyword" \in DOMAIN q THEN q.match_keyword ELSE "primitiveCompare" IN
    [scope |-> q.scope,
     query |-> q.query,
     validate |-> IF "validate" \in DOMAIN q THEN q.validate ELSE "isStringOrRegexp",
     cast |-> IF "cast" \in DOMAIN q THEN q.cast ELSE "toStringOrRegexp",
     KEYWORD |-> kw,
     PHRASE |-> IF "match_phrase" \in DOMAIN q THEN q.match_phrase ELSE kw,
     REGEXP |-> IF "match_regexp" \in DOMAIN q THEN q.match_regexp ELSE "stringRegexp"]

buildBaseQualifiers ==
    LET qualifiers == <<
        [scope |-> "default", query |-> "default"],
        [scope |-> "path", query |-> "path"],
        [scope |-> "file", query |-> "file"],
        [scope |-> "ext", query |-> "ext"],
        [scope |-> "content", query |-> "content"],
        [scope |-> "time", query |-> "time", validate |-> "isDate", cast |-> "toDate"],
        [scope |-> "size", query |-> "size", validate |-> "isSize", cast |-> "toBytes"],
        [scope |-> "linenum", query |-> "linenum", validate |-> "isNumber", cast |-> "toNumber"],
        [scope |-> "charnum", query |-> "charnum", validate |-> "isNumber", cast |-> "toNumber"],
        [scope |-> "chinesenum", query |-> "chinesenum", validate |-> "isNumber", cast |-> "toNumber"],
        [scope |-> "crlf", query |-> "crlf", validate |-> "isBoolean", cast |-> "toBoolean"],
        [scope |-> "hasimage", query |-> "hasimage", validate |-> "isBoolean", cast |-> "toBoolean"],
        [scope |-> "haschinese", query |-> "haschinese", validate |-> "isBoolean", cast |-> "toBoolean"],
        [scope |-> "line", query |-> "line", match_keyword |-> "arrayCompare",
         match_regexp |-> "arrayRegexp"] >>
    IN [i \in DOMAIN qualifiers |-> setDefault(qualifiers[i])]

\* The scopes of buildMarkdownQualifiers
MarkdownScopes ==
    <<"blockcode", "blockcodelang", "blockcodebody", "blockcodeline", "blockhtml", "blockquote",
      "table", "thead", "tbody", "ol", "ul", "task", "taskdone", "tasktodo", "head",
      "h1", "h2", "h3", "h4", "h5", "h6", "highlight", "image", "code", "link", "strong",
      "em", "del">>

\* buildQualifier(scope, ...) after setDefault
buildQualifier(scope) ==
    setDefault([scope |-> scope, query |-> scope, validate |-> "isStringOrRegexp",
                cast |-> "toStringOrRegexp", match_keyword |-> "arrayCompare",
                match_phrase |-> "arrayCompare", match_regexp |-> "arrayRegexp"])

buildMarkdownQualifiers == [i \in DOMAIN MarkdownScopes |-> buildQualifier(MarkdownScopes[i])]

getDefaultQualifiers == buildBaseQualifiers \o buildMarkdownQualifiers

MapSet_keepFirst(map, q) ==
    [s \in DOMAIN map \cup {q.scope} |-> IF s \in DOMAIN map THEN map[s] ELSE q]

\* Map.prototype.set(q.scope, q): the entry of a scope is replaced
MapSet(map, q) ==
    [s \in DOMAIN map \cup {q.scope} |-> IF s = q.scope THEN q ELSE map[s]]

\* new Map(list.map(q => [q.scope, q])): the last entry of a scope wins
RECURSIVE MapByScope(_)
MapByScope(list) ==
    IF list = <<>> THEN <<>>
    ELSE MapSet(MapByScope(SubSeq(list, 1, Len(list) - 1)), list[Len(list)])

\* Finder.qualifiers of new Finder()
qualifiers == MapByScope(getDefaultQualifiers)

\* The keys of new Map(list.map(q => [q.scope, q])): the scopes, each at the
\* place of its first entry
RECURSIVE MapKeys(_)
MapKeys(list) ==
    IF list = <<>> THEN <<>>
    ELSE IF \E i \in 1..(Len(list) - 1) : list[i].scope = list[Len(list)].scope
    THEN MapKeys(SubSeq(list, 1, Len(list) - 1))
    ELSE Append(MapKeys(SubSeq(list, 1, Len(list) - 1)), list[Len(list)].scope)

\* this.qualifiers of setQualifiers(list)
Registry(list) ==
    [keys |-> MapKeys(getDefaultQualifiers \o list),
     entries |-> MapByScope(getDefaultQualifiers \o list)]

\* ------------------------------------------------------ tokenize of a query

\* A query is written as the sequence of the matches the tokenizer regex
\* finds in it. A match is its first non-null named group g and the text of
\* that group (for a qualifier: SCOPE and OPERATOR as written).
Piece(g, text) == [g |-> g, text |-> text]
QualifierPiece(scope, operator) == [g |-> QUALIFIER, SCOPE |-> scope, OPERATOR |-> operator]

\* The regex of setQualifier, flags "gi", on one piece: the scope alternation
\* matches a scope of the registry in any letter case.
IsMatch(piece) ==
    IF piece.g = QUALIFIER
    THEN /\ \E s \in DOMAIN qualifiers : lowerOf(s) = lowerOf(piece.SCOPE)
         /\ \E i \in DOMAIN OPERATORS : OPERATORS[i] = piece.OPERATOR
    ELSE piece.g \in TYPE

\* The same for the regex setQualifier builds from the scopes and operators
\* it is given.
IsMatchIn(scopes, operators, piece) ==
    IF piece.g = QUALIFIER
    THEN /\ \E s \in scopes : lowerOf(s) = lowerOf(piece.SCOPE)
         /\ piece.OPERATOR \in operators
    ELSE piece.g \in TYPE

\* query.toLowerCase()
lowerQuery_scopeOnly(query) ==
    [i \in DOMAIN query |->
        IF query[i].g = QUALIFIER
        THEN QualifierPiece(lowerOf(query[i].SCOPE), query[i].OPERATOR)
        ELSE query[i]]

lowerQuery(query) ==
    [i \in DOMAIN query |->
        IF query[i].g = QUALIFIER
        THEN QualifierPiece(lowerOf(query[i].SCOPE), query[i].OPERATOR)
        ELSE Piece(query[i].g, toLowerCase(query[i].text))]

\* query.trim(): only a match of the AND group starts or ends with white space
trimQuery(query) ==
    LET head == IF query # <<>> /\ query[1].g = AND
                THEN IF trimStart(query[1].text) = <<>> THEN Tail(query)
                     ELSE <<Piece(AND, trimStart(query[1].text))>> \o Tail(query)
                ELSE query
        n == Len(head)
    IN IF head # <<>> /\ head[n].g = AND
       THEN IF trimEnd(head[n].text) = <<>> THEN SubSeq(head, 1, n - 1)
            ELSE SubSeq(head, 1, n - 1) \o <<Piece(AND, trimEnd(head[n].text))>>
       ELSE head

\* The .map of tokenize
TokenOf(piece) ==
    IF piece.g = QUALIFIER
    THEN [type |-> QUALIFIER, scope |-> piece.SCOPE, operator |-> piece.OPERATOR]
    ELSE [type |-> piece.g, operand |-> piece.text]

\* Parser.tokenize(query)
tokenize(query) ==
    LET q == trimQuery(query) IN filterAnd([i \in DOMAIN q |-> TokenOf(q[i])])

\* Parser.parse(query)
parse(query) == parseTokens(tokenize(trimQuery(query)))

\* ------------------------------------------------------------------ walker

\* Filter.size(): max = 10 * (1 << 20)
DefaultMaxSize == 10485760

\* Filter.ext(): allow
DefaultExtensions ==
    { <<>>,
      <<"m", "d">>,
      <<"m", "a", "r", "k", "d", "o", "w", "n">>,
      <<"m", "d", "o", "w", "n">>,
      <<"m", "m", "d">>,
      <<"t", "e", "x", "t">>,
      <<"t", "x", "t">>,
      <<"r", "m", "a", "r", "k", "d", "o", "w", "n">>,
      <<"m", "k", "d">>,
      <<"m", "d", "w", "n">>,
      <<"m", "d", "t", "x", "t">>,
      <<"r", "m", "d">>,
      <<"m", "d", "t", "e", "x", "t">>,
      <<"a", "p", "i", "b">> }

\* Filter.name(): exclude
DefaultExclude == { <<".", "g", "i", "t">>, <<"n", "o", "d", "e", "_", "m", "o", "d", "u", "l", "e", "s">> }

\* Filter.hidden()
Filter_hidden(file) == file = <<>> \/ file[1] # "."

Filter_size_inclusive(stats) == stats.size <= DefaultMaxSize

\* Filter.size()
Filter_size(stats) == stats.size < DefaultMaxSize

\* Filter.ext()
Filter_ext(file) ==
    LET ext == toLowerCase(extname(file))
        extension == IF ext # <<>> /\ ext[1] = "." THEN Tail(ext) ELSE ext
    IN extension \in DefaultExtensions

\* Filter.name()
Filter_name(file) == file \notin DefaultExclude

\* fileFilters.every(fn => fn(file, path, stats)), with the default filters
fileFilters(file, path, stats) == Filter_hidden(file) /\ Filter_size(stats) /\ Filter_ext(file)

\* dirFilters.every(fn => fn(file, path)), with the default filters
dirFilters(file, path) == Filter_hidden(file) /\ Filter_name(file)

\* path.join(dir, file)
join(d, file) == d \o <<"/">> \o file

\* ------------------------------------------------------------------ Finder

\* const { scope = "default", ... } = node
ScopeOf(node) == IF "scope" \in DOMAIN node THEN node.scope ELSE "default"

\* The callback of Finder.parse on one leaf, reg being this.qualifiers: the
\* error it throws. A scope that is no key of the registry gives qualifier
\* undefined, and reading .validate of it is a TypeError; so is calling a
\* validate or a cast the entry does not have.
LeafErrorIn(reg, node) ==
    IF ScopeOf(node) \notin DOMAIN reg THEN "TypeError"
    ELSE IF "validate" \notin DOMAIN reg[ScopeOf(node)] THEN "TypeError"
    ELSE IF VALIDATE(reg[ScopeOf(node)].validate, ScopeOf(node), node.operator,
                     node.operand, node.type) # NoError
    THEN VALIDATE(reg[ScopeOf(node)].validate, ScopeOf(node), node.operator,
                  node.operand, node.type)
    ELSE IF "cast" \notin DOMAIN reg[ScopeOf(node)] THEN "TypeError"
    ELSE NoError

\* node.castResult = qualifier.cast(operand, type), on every leaf
RECURSIVE castLeavesIn(_, _, _)
castLeavesIn(reg, node, tz) ==
    IF node = Undef THEN Undef
    ELSE IF IsLeafType(node.type)
    THEN [type |-> node.type, operand |-> node.operand, scope |-> node.scope,
          operator |-> node.operator,
          castResult |-> CAST(reg[ScopeOf(node)].cast, node.operand, node.type, tz)]
    ELSE [type |-> node.type, left |-> castLeavesIn(reg, node.left, tz),
          right |-> castLeavesIn(reg, node.right, tz)]

\* The first leaf, in traverse order, that the callback throws on; 0 when it
\* throws on none.
FirstBadLeafIn(reg, calls) ==
    IF \E i \in DOMAIN calls : LeafErrorIn(reg, calls[i]) # NoError
    THEN CHOOSE i \in DOMAIN calls :
            /\ LeafErrorIn(reg, calls[i]) # NoError
            /\ \A j \in 1..(i - 1) : LeafErrorIn(reg, calls[j]) = NoError
    ELSE 0

Call(fn, node) == [fn |-> fn, leaf |-> node]

RECURSIVE callbackCalls_castFirst(_, _)
callbackCalls_castFirst(reg, leaves) ==
    IF leaves = <<>> THEN <<>>
    ELSE IF ScopeOf(leaves[1]) \notin DOMAIN reg THEN <<>>
    ELSE IF "cast" \notin DOMAIN reg[ScopeOf(leaves[1])] THEN <<>>
    ELSE IF LeafErrorIn(reg, leaves[1]) # NoError THEN <<Call("cast", leaves[1])>>
    ELSE <<Call("cast", leaves[1]), Call("validate", leaves[1])>>
            \o callbackCalls_castFirst(reg, Tail(leaves))

\* The calls of validate and cast that the callback of Finder.parse makes on
\* the leaves traverse visits, in order, up to the call that throws: on each
\* leaf qualifier.validate(...), then qualifier.cast(...) whose value is
\* stored in node.castResult.
RECURSIVE callbackCalls(_, _)
callbackCalls(reg, leaves) ==
    IF leaves = <<>> THEN <<>>
    ELSE IF ScopeOf(leaves[1]) \notin DOMAIN reg THEN <<>>
    ELSE IF "validate" \notin DOMAIN reg[ScopeOf(leaves[1])] THEN <<>>
    ELSE IF LeafErrorIn(reg, leaves[1]) # NoError THEN <<Call("validate", leaves[1])>>
    ELSE <<Call("validate", leaves[1]), Call("cast", leaves[1])>>
            \o callbackCalls(reg, Tail(leaves))

\* What this.parser.traverse(ast, callback) of Finder.parse leaves, p being
\* what this.parser.parse(query) returned or threw: the error Finder.parse
\* ends with and the calls the callback made.
traversed(reg, p, err) ==
    [err |-> err, val |-> FALSE,
     calls |-> IF p.err # NoError THEN <<>> ELSE callbackCalls(reg, traverse(p.node).calls)]

\* this.parser.traverse(ast, callback) of Finder.parse, t being the leaves
\* traverse visits
castVisitedIn(reg, node, t, tz) ==
    IF FirstBadLeafIn(reg, t.calls) # 0
    THEN Throw(LeafErrorIn(reg, t.calls[FirstBadLeafIn(reg, t.calls)]))
    ELSE IF t.err # NoError THEN Throw(t.err)
    ELSE Ret(castLeavesIn(reg, node, tz), <<>>)

\* Finder.parse after this.parser.parse(query) has returned or thrown r
castParsedIn(reg, r, tz) ==
    IF r.err # NoError THEN r ELSE castVisitedIn(reg, r.node, traverse(r.node), tz)

\* Finder.parse(query, caseSensitive) of a Finder whose registry is reg: the
\* error thrown or the AST returned
FinderParseIn(reg, query, caseSensitive, tz) ==
    IF query = <<>> THEN Throw("query is must")
    ELSE castParsedIn(reg, parse(IF caseSensitive THEN query ELSE lowerQuery(query)), tz)

\* The same, of new Finder()
LeafError(node) == LeafErrorIn(qualifiers, node)
castLeaves(node, tz) == castLeavesIn(qualifiers, node, tz)
FirstBadLeaf(calls) == FirstBadLeafIn(qualifiers, calls)
castVisited(node, t, tz) == castVisitedIn(qualifiers, node, t, tz)
castParsed(r, tz) == castParsedIn(qualifiers, r, tz)
FinderParse(query, caseSensitive, tz) == FinderParseIn(qualifiers, query, caseSensitive, tz)

lowerQueryResult_all(queryResult) ==
    IF queryResult.kind = "string" THEN QV("string", toLowerCase(queryResult.v))
    ELSE IF queryResult.kind = "array"
    THEN QV("array", [i \in DOMAIN queryResult.v |-> toLowerCase(queryResult.v[i])])
    ELSE queryResult

\* The if (!caseSensitive) block of _match
lowerQueryResult(queryResult) ==
    IF queryResult.kind = "string" THEN QV("string", toLowerCase(queryResult.v))
    ELSE IF queryResult.kind = "array" /\ Len(queryResult.v) > 0 /\ queryResult.v[1] # <<>>
    THEN QV("array", [i \in DOMAIN queryResult.v |-> toLowerCase(queryResult.v[i])])
    ELSE queryResult

NoMatch ==
    [err |-> NoError, queryResult |-> QV("undefined", 0), arg |-> QV("undefined", 0),
     val |-> FALSE]

\* _match throws a TypeError: the entry has no function of that name
MatchThrow == [err |-> "TypeError", queryResult |-> QV("undefined", 0),
               arg |-> QV("undefined", 0), val |-> FALSE]

\* Finder._match(node, source, caseSensitive) of a Finder whose registry is
\* reg: the error thrown, what the entry's query returned, what was handed to
\* the matcher, and the matcher's verdict.
_matchIn(reg, node, source, caseSensitive, tz) ==
    IF ScopeOf(node) \notin DOMAIN reg THEN NoMatch
    ELSE IF "query" \notin DOMAIN reg[ScopeOf(node)] THEN MatchThrow
    ELSE IF node.type \notin DOMAIN reg[ScopeOf(node)] THEN MatchThrow
    ELSE LET qualifier == reg[ScopeOf(node)]
             queryResult == QUERY(qualifier.query, source, tz)
             arg == IF caseSensitive THEN queryResult ELSE lowerQueryResult(queryResult)
         IN [err |-> NoError,
             queryResult |-> queryResult,
             arg |-> arg,
             val |-> MATCH(qualifier[node.type], ScopeOf(node), node.operator,
                           node.castResult, arg)]

\* The same, of new Finder()
_match(node, source, caseSensitive, tz) == _matchIn(qualifiers, node, source, caseSensitive, tz)

\* The callback _find hands to evaluate for one source
matchCallback(ast, source, caseSensitive, tz) ==
    [node \in Range(LeafSeq(ast)) |-> _match(node, source, caseSensitive, tz).val]

\* =================================================================
\* The Markdown qualifiers: PARSER, FILTER_FACTORY, TRANSFORMER, buildQuery
\* =================================================================

\* A Markdown text is given by its block structure: a sequence of
\* paragraphs, headings, lists (of items, each a sequence of blocks) and
\* block quotes; a paragraph or heading holds one inline span. Two texts
\* are the same string exactly when they have the same structure, and the
\* empty string is <<>>.
TextSpan(c) == [i |-> "text", content |-> c]
StrongSpan(c) == [i |-> "strong", content |-> c]
Paragraph(span) == [b |-> "paragraph", span |-> span]
Heading(tag, span) == [b |-> "heading", tag |-> tag, span |-> span]
BulletList(items) == [b |-> "bullet_list", items |-> items]
OrderedList(items) == [b |-> "ordered_list", items |-> items]
Blockquote(blocks) == [b |-> "blockquote", blocks |-> blocks]

\* A token of markdown-it
MdToken(type, tag, content, children) ==
    [type |-> type, tag |-> tag, content |-> content, children |-> children]
Open(type) == type \o "_open"
Close(type) == type \o "_close"

\* The characters of a span in the text
SpanText(span) ==
    IF span.i = "strong" THEN <<"*", "*">> \o span.content \o <<"*", "*">> ELSE span.content

\* The tokens the inline rules give for a span
SpanTokens(span) ==
    IF span.i = "strong"
    THEN <<MdToken(Open("strong"), "strong", <<>>, <<>>),
           MdToken("text", "", span.content, <<>>),
           MdToken(Close("strong"), "strong", <<>>, <<>>)>>
    ELSE <<MdToken("text", "", span.content, <<>>)>>

InlineToken(span) == MdToken("inline", "", SpanText(span), SpanTokens(span))

\* markdownit.parse(content, options): the block tokens in document order,
\* each paragraph and heading holding its inline token
RECURSIVE BlockTokens(_), ItemTokens(_)
BlockToken(block) ==
    CASE block.b = "paragraph" ->
            <<MdToken(Open("paragraph"), "p", <<>>, <<>>), InlineToken(block.span),
              MdToken(Close("paragraph"), "p", <<>>, <<>>)>>
      [] block.b = "heading" ->
            <<MdToken(Open("heading"), block.tag, <<>>, <<>>), InlineToken(block.span),
              MdToken(Close("heading"), block.tag, <<>>, <<>>)>>
      [] block.b = "bullet_list" ->
            <<MdToken(Open("bullet_list"), "ul", <<>>, <<>>)>> \o ItemTokens(block.items)
            \o <<MdToken(Close("bullet_list"), "ul", <<>>, <<>>)>>
      [] block.b = "ordered_list" ->
            <<MdToken(Open("ordered_list"), "ol", <<>>, <<>>)>> \o ItemTokens(block.items)
            \o <<MdToken(Close("ordered_list"), "ol", <<>>, <<>>)>>
      [] block.b = "blockquote" ->
            <<MdToken(Open("blockquote"), "blockquote", <<>>, <<>>)>> \o BlockTokens(block.blocks)
            \o <<MdToken(Close("blockquote"), "blockquote", <<>>, <<>>)>>
BlockTokens(blocks) ==
    IF blocks = <<>> THEN <<>> ELSE BlockToken(blocks[1]) \o BlockTokens(Tail(blocks))
ItemTokens(items) ==
    IF items = <<>> THEN <<>>
    ELSE <<MdToken(Open("list_item"), "li", <<>>, <<>>)>> \o BlockTokens(items[1])
         \o <<MdToken(Close("list_item"), "li", <<>>, <<>>)>> \o ItemTokens(Tail(items))

markdownit_parse(content) == BlockTokens(content)

\* The spans of a text in document order
RECURSIVE Spans(_), ItemSpans(_)
BlockSpans(block) ==
    CASE block.b \in {"paragraph", "heading"} -> <<block.span>>
      [] block.b \in {"bullet_list", "ordered_list"} -> ItemSpans(block.items)
      [] block.b = "blockquote" -> Spans(block.blocks)
Spans(blocks) == IF blocks = <<>> THEN <<>> ELSE BlockSpans(blocks[1]) \o Spans(Tail(blocks))
ItemSpans(items) == IF items = <<>> THEN <<>> ELSE Spans(items[1]) \o ItemSpans(Tail(items))

RECURSIVE SpansText(_), SpansTokens(_)
SpansText(spans) ==
    IF spans = <<>> THEN <<>>
    ELSE SpanText(spans[1]) \o (IF Len(spans) > 1 THEN <<"\n">> ELSE <<>>) \o SpansText(Tail(spans))
SpansTokens(spans) ==
    IF spans = <<>> THEN <<>>
    ELSE SpanTokens(spans[1])
         \o (IF Len(spans) > 1 THEN <<MdToken("softbreak", "br", <<>>, <<>>)>> ELSE <<>>)
         \o SpansTokens(Tail(spans))

\* markdownit.parseInline(content, options): one inline token whose
\* children are the inline tokens of the whole text, also for the empty
\* text (the marker characters of the blocks, plain text to the inline
\* rules, are left out of the text tokens)
markdownit_parseInline(content) ==
    <<MdToken("inline", "", SpansText(Spans(content)), SpansTokens(Spans(content)))>>

ParseModes == {"block", "inline"}

\* The function handed to cache(fn)
Underlying(mode, content) ==
    IF mode = "block" THEN markdownit_parse(content) ELSE markdownit_parseInline(content)

\* cache(fn): let cached = "", result = []
NewCache == [cached |-> <<>>, result |-> <<>>]

cacheHit_never(arg, cached) == FALSE

\* !(arg !== cached)
cacheHit(arg, cached) == arg = cached

\* The function cache(fn) returns, called with arg: the closure afterwards,
\* what the call returned and whether it called fn
cache(mode, closure, arg) ==
    IF cacheHit(arg, closure.cached)
    THEN [closure |-> closure, returned |-> closure.result, invoked |-> FALSE]
    ELSE [closure |-> [cached |-> arg, result |-> Underlying(mode, arg)],
          returned |-> Underlying(mode, arg), invoked |-> TRUE]

\* What a filter call gives: the closure afterwards and the verdict
Verdict(closure, keep) == [closure |-> closure, keep |-> keep]

wrappedBy_noClose(type, closure, node) ==
    IF node.type = Open(type)
    THEN Verdict([balance |-> closure.balance + 1], closure.balance + 1 > 0)
    ELSE Verdict(closure, closure.balance > 0)

\* FILTER_FACTORY.wrappedBy(type)
wrappedBy(type, closure, node) ==
    IF node.type = Open(type)
    THEN Verdict([balance |-> closure.balance + 1], closure.balance + 1 > 0)
    ELSE IF node.type = Close(type)
    THEN Verdict([balance |-> closure.balance - 1], closure.balance - 1 > 0)
    ELSE Verdict(closure, closure.balance > 0)

\* FILTER_FACTORY.wrappedByTag(type, tag)
wrappedByTag(type, tag, closure, node) ==
    IF node.type = Open(type) /\ node.tag = tag
    THEN Verdict([balance |-> closure.balance + 1], closure.balance + 1 > 0)
    ELSE IF node.type = Close(type) /\ node.tag = tag
    THEN Verdict([balance |-> closure.balance - 1], closure.balance - 1 > 0)
    ELSE Verdict(closure, closure.balance > 0)

\* An element of a Uint8Array after += value
Uint8 == 256
Uint8Add(val, value) == (val + value + Uint8) % Uint8

\* flags.get(node.type): the index of the type and +1 or -1, or no hit
NoHit == [idx |-> 0, value |-> 0]
flags(types, type) ==
    IF \E i \in DOMAIN types : type = Open(types[i])
    THEN [idx |-> CHOOSE i \in DOMAIN types : type = Open(types[i]), value |-> 1]
    ELSE IF \E i \in DOMAIN types : type = Close(types[i])
    THEN [idx |-> CHOOSE i \in DOMAIN types : type = Close(types[i]), value |-> 0 - 1]
    ELSE NoHit

\* balances[idx] += value; balances.fill(0, idx + 1)
Hit(balances, hit) ==
    [j \in DOMAIN balances |->
        IF j < hit.idx THEN balances[j]
        ELSE IF j = hit.idx THEN Uint8Add(balances[j], hit.value) ELSE 0]

Balanced(balances) == Verdict([balances |-> balances,
                               wrapped |-> \A j \in DOMAIN balances : balances[j] > 0],
                              \A j \in DOMAIN balances : balances[j] > 0)

\* FILTER_FACTORY.wrappedByMulti(...types)
wrappedByMulti(types, closure, node) ==
    IF flags(types, node.type) # NoHit
    THEN Balanced(Hit(closure.balances, flags(types, node.type)))
    ELSE Verdict(closure, closure.wrapped)

\* The filters of the qualifiers modelled, one closure each
TaskTypes == <<"bullet_list", "list_item", "paragraph">>
FilterOf(scope) ==
    CASE scope = "blockquote" -> [factory |-> "wrappedBy", type |-> "blockquote"]
      [] scope = "ul" -> [factory |-> "wrappedBy", type |-> "bullet_list"]
      [] scope = "h1" -> [factory |-> "wrappedByTag", type |-> "heading", tag |-> "h1"]
      [] scope = "task" -> [factory |-> "wrappedByMulti", types |-> TaskTypes]
      [] scope = "strong" -> [factory |-> "wrappedBy", type |-> "strong"]
ParserOf(scope) == IF scope = "strong" THEN "inline" ELSE "block"
FilterScopes == {"blockquote", "ul", "h1", "task", "strong"}

\* The closure of a filter when its factory returns
NewFilter(scope) ==
    IF FilterOf(scope).factory = "wrappedByMulti"
    THEN [balances |-> [j \in DOMAIN FilterOf(scope).types |-> 0], wrapped |-> FALSE]
    ELSE [balance |-> 0]
NewFilters == [scope \in FilterScopes |-> NewFilter(scope)]

\* filter(node)
filter(f, closure, node) ==
    CASE f.factory = "wrappedBy" -> wrappedBy(f.type, closure, node)
      [] f.factory = "wrappedByTag" -> wrappedByTag(f.type, f.tag, closure, node)
      [] f.factory = "wrappedByMulti" -> wrappedByMulti(f.types, closure, node)

\* preorder(ast, filter): recurse(ast) with the output so far; the nodes the
\* filter kept, in preorder, and the closure of the filter afterwards
Kept(closure, output) == [closure |-> closure, output |-> output]
RECURSIVE recurse(_, _, _, _)
next(f, ast, below) == recurse(f, below.closure, Tail(ast), below.output)
visit(f, v, ast, output) ==
    IF v.keep
    THEN next(f, ast, recurse(f, v.closure, ast[1].children, Append(output, ast[1])))
    ELSE next(f, ast, recurse(f, v.closure, ast[1].children, output))
recurse(f, closure, ast, output) ==
    IF ast = <<>> THEN Kept(closure, output) ELSE visit(f, filter(f, closure, ast[1]), ast, output)
preorder(f, closure, ast) == recurse(f, closure, ast, <<>>)

\* TRANSFORMER_FACTORY.taskContent(0): /^\[(x|X| )\]\s+(.+)/ on the trimmed
\* content, the text after the box up to the end of its line
RECURSIVE firstLine(_)
firstLine(text) ==
    IF text = <<>> \/ text[1] = "\n" THEN <<>> ELSE <<text[1]>> \o firstLine(Tail(text))
taskText(content) ==
    IF /\ Len(content) >= 5
       /\ content[1] = "[" /\ content[2] \in {"x", "X", " "} /\ content[3] = "]"
       /\ content[4] \in Whitespace
    THEN firstLine(trimStart(SubSeq(content, 4, Len(content))))
    ELSE <<>>
taskContent(node) == taskText(trim(node.content))

\* The transformer of a qualifier
transformer(scope, node) == IF scope = "task" THEN taskContent(node) ELSE node.content

\* nodes.flatMap(transformer).filter(Boolean)
RECURSIVE transformed(_, _)
transformed(scope, nodes) ==
    IF nodes = <<>> THEN <<>>
    ELSE (IF transformer(scope, nodes[1]) = <<>> THEN <<>> ELSE <<transformer(scope, nodes[1])>>)
         \o transformed(scope, Tail(nodes))

\* =================================================================
\* The Parser of one query: Parser.check, Parser.parse, Parser.evaluate
\* =================================================================

VARIABLES
    raw,            \* the token array of tokenize after .map, before .filter
    tokens,         \* what tokenize returned
    ast,            \* what Parser.parse / Finder.parse returned
    error,          \* the error thrown by the last call, NoError when it returned
    leafFn,         \* the callback handed to evaluate: leaf -> boolean
    result,         \* what evaluate returned (err, val, calls)
    pc,             \* where the call is
    query,          \* the query argument, as the matches of the tokenizer regex
    caseSensitive,  \* the caseSensitive argument
    tz,             \* the time zone of the process, in minutes east of UTC
    source,         \* the file record at hand
    matched,        \* what _match left for each leaf of ast, in leaf order
    dir,            \* the dir argument
    fs,             \* the directory tree: one record per path
    stack,          \* the frames of the walker's recursion, innermost last
    emitted,        \* the records the walker has yielded
    yielded,        \* the records find has yielded
    io,             \* the I/O operations performed, in order
    dirChecked,     \* genTraverser has looked at dir
    asked,          \* the number of next() calls of the consumer
    stopped,        \* the consumer has returned the iterator
    evals,          \* the records evaluate has been called for, in order
    userQualifiers, \* the argument of the constructor or of the latest setQualifiers
    registry,       \* Finder.qualifiers: the keys in insertion order and the entries
    parserScopes,   \* the scopes in the regex of Finder.parser
    parserOperators,\* the operators in the regex of Finder.parser
    grammar,        \* what getGrammar returned: the scopes and operators it lists
    parsers,        \* PARSER: the closure (cached, result) of the cache of each parse mode
    filters,        \* the closures of the Markdown filters of the registry, by scope
    parserCalls     \* the latest call of each memoized parser: its input, what it
                    \* returned and whether it called markdown-it

parserVars == <<raw, tokens, ast, error, leafFn, result, pc>>
markdownVars == <<parsers, filters, parserCalls>>
registryVars == <<userQualifiers, registry, parserScopes, parserOperators, grammar, markdownVars>>
finderVars == <<query, caseSensitive, tz, source, matched, registryVars>>
consumerVars == <<asked, stopped, evals>>
walkVars == <<dir, fs, stack, emitted, yielded, io, dirChecked, consumerVars>>
vars == <<parserVars, finderVars, walkVars>>

NoResult == [err |-> NoError, val |-> FALSE, calls |-> <<>>]
NoSource == [path |-> <<>>, file |-> <<>>, stats |-> [size |-> 0, mtime |-> 0], data |-> <<>>]

\* The variables a specification leaves alone.
ParserIdle ==
    /\ raw = <<>>
    /\ leafFn = <<>>
    /\ result = NoResult
NoGrammar == [scope |-> <<>>, operator |-> <<>>]
NoCall == [called |-> FALSE, arg |-> <<>>, invoked |-> FALSE, returned |-> <<>>]

\* The module has been loaded: nothing has been parsed
Loaded ==
    /\ parsers = [mode \in ParseModes |-> NewCache]
    /\ parserCalls = [mode \in ParseModes |-> NoCall]

\* new Finder(list), in a freshly loaded module: setQualifiers builds the
\* qualifiers, and with them the filters, anew
Constructed(list) ==
    /\ userQualifiers = list
    /\ registry = Registry(list)
    /\ parserScopes = Range(Registry(list).keys)
    /\ parserOperators = Range(OPERATORS)
    /\ grammar = NoGrammar
    /\ filters = NewFilters
    /\ Loaded

FinderIdle ==
    /\ query = <<>>
    /\ caseSensitive = TRUE
    /\ tz = 0
    /\ source = NoSource
    /\ matched = <<>>
    /\ Constructed(<<>>)
WalkIdle ==
    /\ dir = <<>>
    /\ fs = {}
    /\ stack = <<>>
    /\ emitted = <<>>
    /\ yielded = <<>>
    /\ io = <<>>
    /\ dirChecked = FALSE
    /\ asked = 0
    /\ stopped = FALSE
    /\ evals = <<>>

\* The operand of the leaf token at position i of an enumerated query.
Word(i) == <<"w", ToString(i)>>

\* The kinds of token an enumerated query is made of.
TokenKinds ==
    {OR, AND, NOT, PAREN_OPEN, PAREN_CLOSE, KEYWORD, "path:", "ext=", "default="}

\* The token that the .map of tokenize builds for a regex match of this kind
\* at position i.
Tok(kind, i) ==
    CASE kind = OR -> [type |-> OR, operand |-> <<"|">>]
      [] kind = AND -> [type |-> AND, operand |-> <<" ">>]
      [] kind = NOT -> [type |-> NOT, operand |-> <<"-">>]
      [] kind = PAREN_OPEN -> [type |-> PAREN_OPEN, operand |-> <<"(">>]
      [] kind = PAREN_CLOSE -> [type |-> PAREN_CLOSE, operand |-> <<")">>]
      [] kind = KEYWORD -> [type |-> KEYWORD, operand |-> Word(i)]
      [] kind = "path:" -> [type |-> QUALIFIER, scope |-> "path", operator |-> ":"]
      [] kind = "ext=" -> [type |-> QUALIFIER, scope |-> "ext", operator |-> "="]
      [] kind = "default=" -> [type |-> QUALIFIER, scope |-> "default", operator |-> "="]

\* The token array of a query whose regex matches are of the kinds k[1..n].
Stream(k) == [i \in DOMAIN k |-> Tok(k[i], i)]

Kw(w) == [type |-> KEYWORD, operand |-> w]
Re(w) == [type |-> REGEXP, operand |-> w]
Q(scope, operator) == [type |-> QUALIFIER, scope |-> scope, operator |-> operator]

\* The queries of test/parser.spec.js ("mixed") and of the README.
ExampleStreams ==
    { \* sour pear -apple
      <<Kw(<<"sour">>), Tok(AND, 2), Kw(<<"pear">>), Tok(AND, 4), Tok(NOT, 5), Kw(<<"apple">>)>>,
      \* /\bsour\b/ pear time=2024-03-12
      <<Re(<<"sour">>), Tok(AND, 2), Kw(<<"pear">>), Tok(AND, 4), Q("time", "="), Kw(<<"2024-03-12">>)>>,
      \* a | content=plugin | size>2kb
      <<Kw(<<"a">>), Tok(AND, 2), Tok(OR, 3), Tok(AND, 4), Q("content", "="), Kw(<<"plugin">>),
        Tok(AND, 7), Tok(OR, 8), Tok(AND, 9), Q("size", ">"), Kw(<<"2kb">>)>>,
      \* path:(info | warn) -ext:md
      <<Q("path", ":"), Tok(PAREN_OPEN, 2), Kw(<<"info">>), Tok(AND, 4), Tok(OR, 5), Tok(AND, 6),
        Kw(<<"warn">>), Tok(PAREN_CLOSE, 8), Tok(AND, 9), Tok(NOT, 10), Q("ext", ":"), Kw(<<"md">>)>>,
      \* path:(ext=(a) b | (default=c))
      <<Q("path", ":"), Tok(PAREN_OPEN, 2), Q("ext", "="), Tok(PAREN_OPEN, 4), Kw(<<"a">>),
        Tok(PAREN_CLOSE, 6), Tok(AND, 7), Kw(<<"b">>), Tok(AND, 9), Tok(OR, 10), Tok(AND, 11),
        Tok(PAREN_OPEN, 12), Q("default", "="), Kw(<<"c">>), Tok(PAREN_CLOSE, 15), Tok(PAREN_CLOSE, 16)>>
    }

\* The regex matches of '-(A | B)' and of '-A -B'
DeMorganWords == {<<"a">>, <<"b">>, <<"c">>}

DeMorganGroup(a, b) ==
    <<Tok(NOT, 1), Tok(PAREN_OPEN, 2), Kw(a), Tok(AND, 4), Tok(OR, 5), Tok(AND, 6), Kw(b),
      Tok(PAREN_CLOSE, 8)>>

DeMorganPair(a, b) == <<Tok(NOT, 1), Kw(a), Tok(AND, 3), Tok(NOT, 4), Kw(b)>>

DeMorganStreams ==
    UNION {{DeMorganGroup(p[1], p[2]), DeMorganPair(p[1], p[2])} :
             p \in {q \in DeMorganWords \X DeMorganWords : q[1] # q[2]}}

\* The regex matches of the queries of test/parser.spec.js ("tokenize").
FilterExamples ==
    { \* a AND OR b
      <<Kw(<<"a">>), [type |-> AND, operand |-> <<" ", "A", "N", "D", " ">>], Tok(OR, 3),
        Tok(AND, 4), Kw(<<"b">>)>>,
      \* -(abc file:123)
      <<Tok(NOT, 1), Tok(PAREN_OPEN, 2), Kw(<<"abc">>), Tok(AND, 4), Q("file", ":"),
        Kw(<<"123">>), Tok(PAREN_CLOSE, 7)>>,
      \* file: 123
      <<Q("file", ":"), Tok(AND, 2), Kw(<<"123">>)>> }

ParserInit ==
    /\ FinderIdle
    /\ \/ \E n \in 0..MaxTokens : \E k \in [1..n -> TokenKinds] : raw = Stream(k)
       \/ raw \in ExampleStreams
       \/ raw \in DeMorganStreams
       \/ raw \in FilterExamples
    /\ tokens = <<>>
    /\ ast = Undef
    /\ error = NoError
    /\ leafFn = <<>>
    /\ result = NoResult
    /\ pc = "start"
    /\ WalkIdle

\* parser.check(raw)
Check ==
    /\ pc = "start"
    /\ error' = check(raw)
    /\ pc' = "checked"
    /\ UNCHANGED <<raw, tokens, ast, leafFn, result, finderVars, walkVars>>

\* parser.parse(query), the regex matches of query being raw
Parse ==
    /\ pc = "start"
    /\ LET r == parseTokens(filterAnd(raw)) IN
        /\ tokens' = filterAnd(raw)
        /\ error' = r.err
        /\ ast' = r.node
        /\ pc' = IF r.err = NoError THEN "parsed" ELSE "failed"
    /\ UNCHANGED <<raw, leafFn, result, finderVars, walkVars>>

\* parser.evaluate(ast, callback), for any boolean callback
Evaluate ==
    /\ pc = "parsed"
    /\ \E f \in [Range(LeafSeq(ast)) -> BOOLEAN] :
        /\ leafFn' = f
        /\ result' = evaluate(ast, f)
    /\ pc' = "evaluated"
    /\ UNCHANGED <<raw, tokens, ast, error, finderVars, walkVars>>

\* parser.traverse(ast, callback), for a callback that returns
Traverse ==
    /\ pc = "parsed"
    /\ result' = traverse(ast)
    /\ pc' = "traversed"
    /\ UNCHANGED <<raw, tokens, ast, error, leafFn, finderVars, walkVars>>

ParserNext == Check \/ Parse \/ Evaluate \/ Traverse

SpecParser == ParserInit /\ [][ParserNext]_vars

\* =================================================================
\* Claims about the Parser
\* =================================================================

\* The indices of the leaf tokens of ts, in increasing order.
LeafPositions(ts) ==
    LET F[i \in 0..Len(ts)] ==
            IF i = 0 THEN <<>>
            ELSE IF IsLeafType(ts[i].type) THEN Append(F[i - 1], i) ELSE F[i - 1]
    IN F[Len(ts)]

\* Opening minus closing parentheses among ts[a..b].
Net(ts, a, b) ==
    Cardinality({k \in a..b : ts[k].type = PAREN_OPEN})
        - Cardinality({k \in a..b : ts[k].type = PAREN_CLOSE})

\* The opening parentheses of the groups that enclose position i.
EnclosingOpens(ts, i) ==
    {j \in 1..(i - 1) : ts[j].type = PAREN_OPEN /\ \A k \in j..(i - 1) : Net(ts, j, k) > 0}

\* The qualifier prefix written before position j, the default one when none is.
PrefixAt(ts, j) ==
    IF j > 1 /\ ts[j - 1].type = QUALIFIER
    THEN [scope |-> ts[j - 1].scope, operator |-> ts[j - 1].operator]
    ELSE [scope |-> "default", operator |-> ":"]

HasOwnPrefix(ts, i) == i > 1 /\ ts[i - 1].type = QUALIFIER

SetMax(S) == CHOOSE x \in S : \A y \in S : y <= x
SetMin(S) == CHOOSE x \in S : \A y \in S : x <= y

\* The qualifier the leaf at position i ends with: the innermost prefix, of
\* the leaf or of a group around it, whose scope is not "default"; when all
\* are absent or "default", the prefix (or default) of the outermost level.
ExpectedQualifier(ts, i) ==
    LET levels == {i} \cup EnclosingOpens(ts, i)
        named == {j \in levels : PrefixAt(ts, j).scope # "default"}
    IN IF named # {} THEN PrefixAt(ts, SetMax(named)) ELSE PrefixAt(ts, SetMin(levels))

\* The tree of the grammar for ts[a..b], leaves as {type, operand}:
\*   expression := term (OR term)*, term := factor ((AND|NOT) factor)*,
\*   factor := QUALIFIER? (leaf | '(' expression ')'),
\* split at the last operator of the weakest level outside parentheses.
TopLevel(ts, a, b, types) ==
    {k \in a..b : ts[k].type \in types /\ Net(ts, a, k - 1) = 0}

RECURSIVE GrammarExpression(_, _, _), GrammarTerm(_, _, _), GrammarFactor(_, _, _)
GrammarExpression(ts, a, b) ==
    LET ors == TopLevel(ts, a, b, {OR}) IN
    IF ors = {} THEN GrammarTerm(ts, a, b)
    ELSE LET k == SetMax(ors) IN
         [type |-> OR, left |-> GrammarExpression(ts, a, k - 1),
          right |-> GrammarTerm(ts, k + 1, b)]

GrammarTerm(ts, a, b) ==
    LET ops == TopLevel(ts, a, b, {AND, NOT}) IN
    IF ops = {} THEN GrammarFactor(ts, a, b)
    ELSE LET k == SetMax(ops) IN
         [type |-> ts[k].type,
          left |-> IF k = a THEN Undef ELSE GrammarTerm(ts, a, k - 1),
          right |-> GrammarFactor(ts, k + 1, b)]

GrammarFactor(ts, a, b) ==
    LET m == IF a <= b /\ ts[a].type = QUALIFIER THEN a + 1 ELSE a IN
    IF m = b /\ IsLeafType(ts[m].type) THEN [type |-> ts[m].type, operand |-> ts[m].operand]
    ELSE IF m < b /\ ts[m].type = PAREN_OPEN /\ ts[b].type = PAREN_CLOSE
    THEN GrammarExpression(ts, m + 1, b - 1)
    ELSE [type |-> "no factor"]

\* A node without the qualifiers of its leaves.
RECURSIVE Shape(_)
Shape(node) ==
    IF node = Undef THEN Undef
    ELSE IF IsLeafType(node.type) THEN [type |-> node.type, operand |-> node.operand]
    ELSE [type |-> node.type, left |-> Shape(node.left), right |-> Shape(node.right)]

Node(type, left, right) == [type |-> type, left |-> left, right |-> right]
Leaf(type, operand, scope, operator) ==
    [type |-> type, operand |-> operand, scope |-> scope, operator |-> operator]

\* C2: the AST that Parser.parse returns is the tree of the grammar
\* expression := term (OR term)*, term := factor ((AND|NOT) factor)*, both
\* levels left-associative, NOT a binary node whose left is the chain of the
\* factors before it in its term, undefined when '-' starts the term; on
\* 'a | b | c' it is OR(OR(a,b),c), on 'a | b c' OR(a,AND(b,c)), on '-a'
\* NOT(undefined, a).
C2_ParseBuildsGrammarTree ==
    pc = "parsed" =>
        /\ Shape(ast) = GrammarExpression(tokens, 1, Len(tokens))
        /\ raw = Stream(<<KEYWORD, OR, KEYWORD, OR, KEYWORD>>) =>
              Shape(ast) = Node(OR, Node(OR, Kw(Word(1)), Kw(Word(3))), Kw(Word(5)))
        /\ raw = Stream(<<KEYWORD, OR, KEYWORD, AND, KEYWORD>>) =>
              Shape(ast) = Node(OR, Kw(Word(1)), Node(AND, Kw(Word(3)), Kw(Word(5))))
        /\ raw = Stream(<<NOT, KEYWORD>>) => Shape(ast) = Node(NOT, Undef, Kw(Word(2)))

\* C2 witness: 'sour pear -apple' is parsed to NOT(AND(sour, pear), apple).
C2_Witness ==
    /\ pc = "parsed"
    /\ Len(raw) = 6 /\ raw[1] = Kw(<<"sour">>) /\ raw[5].type = NOT
    /\ Shape(ast) = Node(NOT, Node(AND, Kw(<<"sour">>), Kw(<<"pear">>)), Kw(<<"apple">>))

\* The value of the tree under f: OR is disjunction, AND conjunction, NOT
\* with a left child left-and-not-right, NOT without one not-right.
RECURSIVE Truth(_, _)
Truth(node, f) ==
    CASE IsLeafType(node.type) -> f[node]
      [] node.type = OR -> Truth(node.left, f) \/ Truth(node.right, f)
      [] node.type = AND -> Truth(node.left, f) /\ Truth(node.right, f)
      [] node.type = NOT ->
            IF node.left = Undef THEN ~Truth(node.right, f)
            ELSE Truth(node.left, f) /\ ~Truth(node.right, f)

RECURSIVE Asked(_, _)
Asked(node, f) ==
    CASE IsLeafType(node.type) -> <<node>>
      [] node.type = OR ->
            Asked(node.left, f) \o (IF Truth(node.left, f) THEN <<>> ELSE Asked(node.right, f))
      [] node.type = AND ->
            Asked(node.left, f) \o (IF Truth(node.left, f) THEN Asked(node.right, f) ELSE <<>>)
      [] node.type = NOT ->
            IF node.left = Undef THEN Asked(node.right, f)
            ELSE Asked(node.left, f)
                    \o (IF Truth(node.left, f) THEN Asked(node.right, f) ELSE <<>>)

\* The place of a leaf among the leaves of the AST, left to right.
LeafIndex(leaf) == CHOOSE k \in DOMAIN LeafSeq(ast) : LeafSeq(ast)[k] = leaf

\* C13: evaluate calls the leaf function on the leaves from left to right
\* and short-circuits: the right side of an OR is not called when the left
\* side is true, the right side of an AND, or of a NOT with a left child, is
\* not called when the left side is false; no leaf is called more than once.
C13_EvaluateShortCircuits ==
    pc = "evaluated" =>
        /\ result.calls = Asked(ast, leafFn)
        /\ \A i \in DOMAIN result.calls : result.calls[i] \in Range(LeafSeq(ast))
        /\ \A i, j \in DOMAIN result.calls :
                i < j => LeafIndex(result.calls[i]) < LeafIndex(result.calls[j])

\* C13 witness: an OR of two leaves with a true left leaf has called the
\* left leaf only.
C13_Witness ==
    /\ pc = "evaluated"
    /\ ast.type = OR
    /\ IsLeafType(ast.left.type) /\ IsLeafType(ast.right.type)
    /\ leafFn[ast.left]
    /\ result.calls = <<ast.left>>

\* An AND or a NOT with a false left side has not called every leaf.
C13_WitnessAnd ==
    /\ pc = "evaluated"
    /\ ast.type \in {AND, NOT}
    /\ ast.left # Undef
    /\ ~Truth(ast.left, leafFn)
    /\ Len(result.calls) < Len(LeafSeq(ast))

\* The leaf Parser.parse builds for a keyword without prefix.
DefaultLeaf(w) == [type |-> KEYWORD, operand |-> w, scope |-> "default", operator |-> ":"]

\* What evaluate returns on the AST Parser.parse builds from the regex
\* matches ts, under f.
EvaluateParsed(ts, f) == evaluate(parseTokens(filterAnd(ts)).node, f)

\* C14: De Morgan through the parser: for keywords A and B and every leaf
\* function f, evaluate(parse('-(A | B)'), f) = evaluate(parse('-A -B'), f),
\* both being "neither f(A) nor f(B)".
C14_DeMorgan ==
    \A a \in DeMorganWords, b \in DeMorganWords :
        (pc = "evaluated" /\ raw \in {DeMorganGroup(a, b), DeMorganPair(a, b)}) =>
            /\ result.err = NoError
            /\ parseTokens(filterAnd(DeMorganGroup(a, b))).err = NoError
            /\ parseTokens(filterAnd(DeMorganPair(a, b))).err = NoError
            /\ result.val = EvaluateParsed(DeMorganGroup(a, b), leafFn).val
            /\ result.val = EvaluateParsed(DeMorganPair(a, b), leafFn).val
            /\ result.val = (~leafFn[DefaultLeaf(a)] /\ ~leafFn[DefaultLeaf(b)])

\* C14 witness: '-a -b' has been evaluated to true under an f that is false
\* on both leaves.
C14_Witness ==
    /\ pc = "evaluated"
    /\ raw = DeMorganPair(<<"a">>, <<"b">>)
    /\ ~leafFn[DefaultLeaf(<<"a">>)] /\ ~leafFn[DefaultLeaf(<<"b">>)]
    /\ result.val

\* '-(a | b)' has been evaluated to false under an f that is true on b only.
C14_WitnessGroup ==
    /\ pc = "evaluated"
    /\ raw = DeMorganGroup(<<"a">>, <<"b">>)
    /\ ~leafFn[DefaultLeaf(<<"a">>)] /\ leafFn[DefaultLeaf(<<"b">>)]
    /\ ~result.val

\* The type and operand of the leaf tokens of ts, in token order.
LeafTokens(ts) ==
    [n \in DOMAIN LeafPositions(ts) |->
        [type |-> ts[LeafPositions(ts)[n]].type, operand |-> ts[LeafPositions(ts)[n]].operand]]

\* The number of leaves below a node.
RECURSIVE LeafCount(_)
LeafCount(node) ==
    IF node = Undef THEN 0
    ELSE IF IsLeafType(node.type) THEN 1
    ELSE LeafCount(node.left) + LeafCount(node.right)

\* C15: traverse calls the callback on every leaf of the AST exactly once,
\* without short-circuit, from left to right; on an AST built by Parser.parse
\* this is the order of the leaf tokens in the token stream; a NOT without
\* left child has only its right side visited.
C15_TraverseVisitsEveryLeafInOrder ==
    pc = "traversed" =>
        /\ result.err = NoError
        /\ Len(result.calls) = LeafCount(ast)
        /\ [n \in DOMAIN result.calls |->
                [type |-> result.calls[n].type, operand |-> result.calls[n].operand]]
            = LeafTokens(tokens)
        /\ (ast.type = NOT /\ ast.left = Undef) => result.calls = traverse(ast.right).calls

\* C15 witness: a tree of three leaves, an OR over a leaf and an AND, has
\* been traversed.
C15_Witness ==
    /\ pc = "traversed"
    /\ Len(result.calls) = 3
    /\ ast.type = OR
    /\ ast.right.type = AND

\* A NOT without left child over one leaf has been traversed.
C15_WitnessNot ==
    /\ pc = "traversed"
    /\ ast.type = NOT /\ ast.left = Undef
    /\ Len(result.calls) = 1

\* An AND token at position i of ts that stands next to an operator: the
\* token before it is OR, AND, NOT, PAREN_OPEN or QUALIFIER, or the token
\* after it is OR, AND, NOT or PAREN_CLOSE.
RedundantAnd(ts, i) ==
    /\ ts[i].type = AND
    /\ \/ i > 1 /\ ts[i - 1].type \in {OR, AND, NOT, PAREN_OPEN, QUALIFIER}
       \/ i < Len(ts) /\ ts[i + 1].type \in {OR, AND, NOT, PAREN_CLOSE}

\* The tokens of ts[1..i] that are no redundant AND, in order.
RECURSIVE WithoutRedundantAnd(_, _)
WithoutRedundantAnd(ts, i) ==
    IF i = 0 THEN <<>>
    ELSE IF RedundantAnd(ts, i) THEN WithoutRedundantAnd(ts, i - 1)
    ELSE Append(WithoutRedundantAnd(ts, i - 1), ts[i])

\* C16: tokenize removes an AND token exactly when the token before it is
\* OR, AND, NOT, PAREN_OPEN or QUALIFIER or the token after it is OR, AND, NOT
\* or PAREN_CLOSE, and keeps every other token in order: 'a AND OR b' is
\* tokenized as 'a OR b', and of '-(abc file:123)' only the AND between abc
\* and file: is kept.
C16_TokenizeDropsRedundantAnd ==
    pc \in {"parsed", "failed", "evaluated", "traversed"} =>
        /\ tokens = WithoutRedundantAnd(raw, Len(raw))
        /\ (Len(raw) = 5 /\ raw[1] = Kw(<<"a">>) /\ raw[2].type = AND /\ raw[3].type = OR
                /\ raw[4].type = AND /\ raw[5] = Kw(<<"b">>))
            => tokens = <<Kw(<<"a">>), Tok(OR, 3), Kw(<<"b">>)>>

\* C16 witness: '-(abc file:123)' has been parsed with the AND between abc
\* and file: as its only AND token.
C16_Witness ==
    /\ pc = "parsed"
    /\ raw = <<Tok(NOT, 1), Tok(PAREN_OPEN, 2), Kw(<<"abc">>), Tok(AND, 4), Q("file", ":"),
               Kw(<<"123">>), Tok(PAREN_CLOSE, 7)>>
    /\ tokens = raw

\* 'file: 123' has been parsed without its AND token.
C16_WitnessDropped ==
    /\ pc = "parsed"
    /\ raw = <<Q("file", ":"), Tok(AND, 2), Kw(<<"123">>)>>
    /\ tokens = <<Q("file", ":"), Kw(<<"123">>)>>

\* C4: after Parser.parse every leaf has a scope and an operator: 'default'
\* and ':' when no prefix is written on the leaf or on a group around it, and
\* otherwise the prefix that the leaf inherits, a prefix before a group being
\* given to every leaf of the group, at any depth, whose scope is absent or
\* 'default' when the group's factor is completed.
C4_EveryLeafQualified ==
    pc = "parsed" =>
        LET leaves == LeafSeq(ast)
            pos == LeafPositions(tokens)
        IN /\ Len(leaves) = Len(pos)
           /\ \A n \in DOMAIN leaves :
                /\ DOMAIN leaves[n] = {"type", "operand", "scope", "operator"}
                /\ leaves[n] = Leaf(tokens[pos[n]].type, tokens[pos[n]].operand,
                                    ExpectedQualifier(tokens, pos[n]).scope,
                                    ExpectedQualifier(tokens, pos[n]).operator)
                /\ (\A j \in {pos[n]} \cup EnclosingOpens(tokens, pos[n]) :
                        ~HasOwnPrefix(tokens, j))
                   => leaves[n].scope = "default" /\ leaves[n].operator = ":"

\* C4 witness: 'path:(info | warn) -ext:md' is parsed to
\* NOT(OR(path:info, path:warn), ext:md).
C4_Witness ==
    /\ pc = "parsed"
    /\ ast = Node(NOT,
                  Node(OR, Leaf(KEYWORD, <<"info">>, "path", ":"),
                           Leaf(KEYWORD, <<"warn">>, "path", ":")),
                  Leaf(KEYWORD, <<"md">>, "ext", ":"))

\* C5 as claimed: a leaf written with its own prefix inside a parenthesised
\* group keeps that prefix's scope and operator, for every scope.
C5_OwnPrefixKept_AnyScope ==
    pc = "parsed" =>
        LET leaves == LeafSeq(ast)
            pos == LeafPositions(tokens)
        IN \A n \in DOMAIN leaves :
            (HasOwnPrefix(tokens, pos[n]) /\ EnclosingOpens(tokens, pos[n]) # {})
            => /\ leaves[n].scope = tokens[pos[n] - 1].scope
               /\ leaves[n].operator = tokens[pos[n] - 1].operator

\* C5 amended: a leaf written with its own prefix of a scope other than
\* 'default' inside a parenthesised group keeps that prefix's scope and
\* operator whatever prefix the enclosing groups carry.
C5_OwnPrefixKept ==
    pc = "parsed" =>
        LET leaves == LeafSeq(ast)
            pos == LeafPositions(tokens)
        IN \A n \in DOMAIN leaves :
            (/\ HasOwnPrefix(tokens, pos[n])
             /\ EnclosingOpens(tokens, pos[n]) # {}
             /\ tokens[pos[n] - 1].scope # "default")
            => /\ leaves[n].scope = tokens[pos[n] - 1].scope
               /\ leaves[n].operator = tokens[pos[n] - 1].operator

\* C5 witness: in 'path:(ext=w)' the leaf is ext= although the group is path:.
C5_Witness ==
    /\ pc = "parsed"
    /\ tokens = Stream(<<"path:", PAREN_OPEN, "ext=", KEYWORD, PAREN_CLOSE>>)
    /\ ast = Leaf(KEYWORD, Word(4), "ext", "=")

\* The rejection rule as the specification words it.
ForbiddenFirst == {OR, AND, PAREN_CLOSE}
ForbiddenLast == {OR, AND, NOT, PAREN_OPEN, QUALIFIER}
ForbiddenPairs ==
    ({OR, AND, PAREN_OPEN} \X {OR, AND, PAREN_CLOSE})
        \cup ({NOT} \X {OR, AND, NOT, PAREN_CLOSE})
        \cup ({QUALIFIER} \X {OR, AND, NOT, PAREN_CLOSE, QUALIFIER})

Rejected(ts) ==
    \/ ts[1].type \in ForbiddenFirst
    \/ ts[Len(ts)].type \in ForbiddenLast
    \/ \E i \in 1..(Len(ts) - 1) : <<ts[i].type, ts[i + 1].type>> \in ForbiddenPairs
    \/ \E n \in 1..Len(ts) : Net(ts, 1, n) < 0
    \/ Net(ts, 1, Len(ts)) # 0

\* C6: Parser.check raises an error for a non-empty token stream if and only
\* if the first token, the last token, a FOLLOW pair or the balance of the
\* parentheses is invalid; it leaves the tokens unchanged.
C6_CheckRejectsExactly ==
    [][(pc = "start" /\ pc' = "checked" /\ raw # <<>>) =>
            /\ (error' # NoError) <=> Rejected(raw)
            /\ raw' = raw]_vars

\* C6 witness: check has accepted a stream with a group and a qualifier.
C6_Witness ==
    /\ pc = "checked"
    /\ error = NoError
    /\ raw = Stream(<<"path:", PAREN_OPEN, NOT, KEYWORD, PAREN_CLOSE>>)

\* =================================================================
\* Finder.parse of one query, and Finder._match of its leaves on one file
\* =================================================================

\* Operands as the user writes them.
tA == <<"a">>
tB == <<"b">>
tUpperA == <<"A">>
tTrue == <<"t", "r", "u", "e">>
tFalse == <<"f", "a", "l", "s", "e">>
tUpperTrue == <<"T", "R", "U", "E">>
tTen == <<"1", "0">>
tTenKb == <<"1", "0", "k", "b">>
tTenUpperKb == <<"1", "0", "K", "B">>
tOneAndHalfK == <<"1", ".", "5", "k">>
tDate == <<"2", "0", "2", "4", "-", "0", "3", "-", "1", "2">>
tOpenParen == <<"(">>
tGroup == <<"(", "a", ")">>

StringScopes == {"default", "path", "file", "ext", "content", "line", "h1", "task", "blockcodeline"}
SizeScopes == {"size"}
NumberScopes == {"linenum", "charnum", "chinesenum"}
DateScopes == {"time"}
ComparableScopes == SizeScopes \cup NumberScopes \cup DateScopes
BooleanScopes == {"crlf", "hasimage", "haschinese"}

\* The spellings of a scope the queries use.
Spellings(scope) == {scope} \cup {p[1] : p \in {q \in UpperLower : q[2] = scope}}

\* The operand pieces tried after a prefix of a scope: texts for which
\* Number, Date and RegExp are modelled above.
Operands(scope) ==
    LET words ==
            CASE scope \in StringScopes -> {tA, tUpperA, tTrue, tTenKb, tDate}
              [] scope \in SizeScopes -> {tTenKb, tTenUpperKb, tOneAndHalfK, tTen, tA, tTrue}
              [] scope \in NumberScopes -> {tTen, tA, tTrue, tTenKb}
              [] scope \in DateScopes -> {tDate, tA, tTrue}
              [] scope \in BooleanScopes -> {tTrue, tFalse, tUpperTrue, tA, tTen}
        sources ==
            CASE scope \in StringScopes -> {tA, tUpperA, tOpenParen, tGroup, tTrue}
              [] scope \in SizeScopes -> {tA, tTenKb}
              [] scope \in NumberScopes -> {tA, tTen}
              [] scope \in DateScopes -> {tA, tDate}
              [] scope \in BooleanScopes -> {tTrue, tA}
    IN {Piece(KEYWORD, w) : w \in words} \cup {Piece(PHRASE, w) : w \in words}
       \cup (IF scope \in NumberScopes THEN {Piece(PHRASE, <<>>)} ELSE {})
       \cup {Piece(REGEXP, w) : w \in sources}

AllScopes == StringScopes \cup ComparableScopes \cup BooleanScopes

\* A query of one leaf: prefix and operand, operand alone, or prefix and a
\* parenthesised operand.
LeafQueries ==
    UNION {UNION {{ <<QualifierPiece(sp, OPERATORS[o]), operand>>,
                    <<QualifierPiece(sp, OPERATORS[o]), Piece(PAREN_OPEN, <<"(">>), operand,
                      Piece(PAREN_CLOSE, <<")">>)>> }
                  : sp \in Spellings(scope), o \in DOMAIN OPERATORS, operand \in Operands(scope)}
           : scope \in AllScopes}
    \cup {<<operand>> : operand \in Operands("default")}

\* Queries of two leaves, and queries that Parser.parse refuses.
OtherQueries ==
    { <<>>,
      <<Piece(AND, <<" ">>)>>,
      <<Piece(KEYWORD, tA), Piece(AND, <<" ">>), Piece(OR, <<"|">>)>>,
      <<Piece(AND, <<" ">>), Piece(KEYWORD, tA), Piece(AND, <<" ", " ">>)>>,
      <<Piece(AND, <<" ", "A", "N", "D", " ">>), Piece(KEYWORD, tA)>>,
      <<QualifierPiece("size", ">"), Piece(KEYWORD, tA), Piece(AND, <<" ">>),
        QualifierPiece("time", ":"), Piece(KEYWORD, tDate)>>,
      <<QualifierPiece("time", ":"), Piece(KEYWORD, tDate), Piece(AND, <<" ">>),
        QualifierPiece("size", ">"), Piece(KEYWORD, tA)>>,
      <<Piece(KEYWORD, tA), Piece(AND, <<" ">>), QualifierPiece("size", ">"), Piece(KEYWORD, tA)>>,
      <<Piece(KEYWORD, tA), Piece(AND, <<" ">>), QualifierPiece("size", ">"),
        Piece(KEYWORD, tTenKb)>> }

TimeZones == {0 - 300, 0, 480}

HasDateScope(q) == \E i \in DOMAIN q : q[i].g = QUALIFIER /\ lowerOf(q[i].SCOPE) \in DateScopes

FinderParseInit ==
    /\ Constructed(<<>>)
    /\ query \in LeafQueries \cup OtherQueries
    /\ \A i \in DOMAIN query : IsMatch(query[i])
    /\ caseSensitive \in BOOLEAN
    /\ tz \in (IF HasDateScope(query) THEN TimeZones ELSE {0})
    /\ source = NoSource
    /\ matched = <<>>
    /\ tokens = <<>>
    /\ ast = Undef
    /\ error = NoError
    /\ pc = "start"
    /\ ParserIdle
    /\ WalkIdle

\* What Finder.parse leaves: toks what tokenize returned, p what
\* this.parser.parse(query) returned or threw, r what Finder.parse returned
\* or threw
FinderParsed(toks, p, r) ==
    /\ tokens' = toks
    /\ error' = r.err
    /\ ast' = r.node
    /\ pc' = IF r.err = NoError THEN "parsed" ELSE "failed"
    /\ result' = traversed(registry.entries, p, r.err)
FinderParsing(q, p) ==
    FinderParsed(IF query = <<>> THEN <<>> ELSE tokenize(q), p,
                 IF query = <<>> THEN Throw("query is must")
                 ELSE castParsedIn(registry.entries, p, tz))

\* finder.parse(query, caseSensitive)
Finder_parse ==
    /\ pc = "start"
    /\ \A i \in DOMAIN query : IsMatchIn(parserScopes, parserOperators, query[i])
    /\ FinderParsing(IF caseSensitive THEN query ELSE lowerQuery(query),
                     parse(IF caseSensitive THEN query ELSE lowerQuery(query)))
    /\ UNCHANGED <<raw, leafFn, finderVars, walkVars>>

FinderParseNext == Finder_parse

SpecFinderParse == FinderParseInit /\ [][FinderParseNext]_vars

\* ---- one file against the leaves of a query

\* File texts: one line, several lines, an empty first line, no text.
Datas ==
    { <<"a">>, <<"A">>, <<"b">>, <<>>, <<"A", "\n", "b">>, <<"\n", "A">>, <<" ", "A", " ", "\n", "a">>,
      <<"b", "\r", "\n", "A">> }

FileNames == { <<"a", ".", "m", "d">>, <<"A", ".", "M", "D">> }

Root == <<"r">>

\* 2024-03-12T02:00Z, in minutes
SomeTime == (DaysToMarch2024 + 11) * MinutesPerDay + 120

Sources ==
    {[path |-> join(Root, f), file |-> f, stats |-> [size |-> Len(d), mtime |-> SomeTime],
      data |-> d] : f \in FileNames, d \in Datas}

\* One-leaf queries that Finder.parse accepts whatever caseSensitive is.
MatchQueries ==
    {q \in LeafQueries : /\ \A i \in DOMAIN q : IsMatch(q[i])
                         /\ (q[1].g = QUALIFIER =>
                                q[1].SCOPE \in DOMAIN qualifiers \ {"h1", "task", "blockcodeline"})
                         /\ FinderParse(q, FALSE, 0).err = NoError
                         /\ FinderParse(q, TRUE, 0).err = NoError
                         /\ \A i \in DOMAIN q : q[i].g = REGEXP => q[i].text \in {tA, tUpperA, tTrue}}

MatchInit ==
    /\ Constructed(<<>>)
    /\ query \in MatchQueries
    /\ caseSensitive \in BOOLEAN
    /\ tz \in (IF HasDateScope(query) THEN TimeZones ELSE {0})
    /\ source \in Sources
    /\ matched = <<>>
    /\ tokens = <<>>
    /\ ast = Undef
    /\ error = NoError
    /\ pc = "start"
    /\ ParserIdle
    /\ WalkIdle

\* this._match(node, source, caseSensitive) for every leaf of the AST
Match ==
    /\ pc = "parsed"
    /\ matched' = [i \in DOMAIN LeafSeq(ast) |->
                        _matchIn(registry.entries, LeafSeq(ast)[i], source, caseSensitive, tz)]
    /\ pc' = "matched"
    /\ UNCHANGED <<raw, tokens, ast, error, leafFn, result, walkVars>>
    /\ UNCHANGED <<query, caseSensitive, tz, source, registryVars>>

MatchNext == Finder_parse \/ Match

SpecMatch == MatchInit /\ [][MatchNext]_vars

\* =================================================================
\* Claims about Finder.parse and Finder._match
\* =================================================================

\* The position of the operand piece of a one-leaf query, 0 for other queries.
LeafAt(q) ==
    CASE Len(q) = 1 /\ IsLeafType(q[1].g) -> 1
      [] Len(q) = 2 /\ q[1].g = QUALIFIER /\ IsLeafType(q[2].g) -> 2
      [] Len(q) = 4 /\ q[1].g = QUALIFIER /\ q[2].g = PAREN_OPEN /\ IsLeafType(q[3].g)
                    /\ q[4].g = PAREN_CLOSE -> 3
      [] OTHER -> 0

\* The leaf a one-leaf query writes, as Finder.parse reads it: lowercased
\* when caseSensitive is false, "default" ":" when no prefix is written.
WrittenLeaf(q, cs) ==
    LET piece == q[LeafAt(q)] IN
    [type |-> piece.g,
     operand |-> IF cs THEN piece.text ELSE toLowerCase(piece.text),
     scope |-> IF q[1].g = QUALIFIER THEN (IF cs THEN q[1].SCOPE ELSE lowerOf(q[1].SCOPE))
               ELSE "default",
     operator |-> IF q[1].g = QUALIFIER THEN q[1].OPERATOR ELSE ":"]

\* The operator rules as the claim lists them.
BreaksListedRules(leaf) ==
    IF leaf.scope \in ComparableScopes
    THEN leaf.operator = ":" \/ leaf.type = REGEXP
    ELSE IF leaf.scope \in BooleanScopes
    THEN leaf.operator \notin {"=", "!="} \/ leaf.operand \notin {tTrue, tFalse}
    ELSE \/ leaf.operator \notin {":", "=", "!="}
         \/ leaf.type = REGEXP /\ leaf.operator # ":"

\* The operator rules with the operand rules: a regular expression has to
\* compile, a comparable operand has to parse for its scope, a boolean
\* operand is no regular expression.
BreaksRules(leaf) ==
    \/ BreaksListedRules(leaf)
    \/ leaf.scope \in SizeScopes /\ ~SizeParts(leaf.operand).ok
    \/ leaf.scope \in NumberScopes /\ ~IsNumeric(leaf.operand)
    \/ leaf.scope \in DateScopes /\ ~IsDate(leaf.operand)
    \/ leaf.scope \in BooleanScopes /\ leaf.type = REGEXP
    \/ leaf.scope \notin ComparableScopes \cup BooleanScopes
        /\ leaf.type = REGEXP /\ ~ValidRegExp(leaf.operand)

QualifierErrors ==
    { "RegExp operands only support the \":\" operator",
      "Invalid regular expression",
      "Only supports \"=\", \"!=\", and \":\" operators",
      "RegExp operands are not valid for comparisons",
      "The \":\" operator is not valid for comparisons",
      "Only supports \"=\" and \"!=\" operators for logical comparisons",
      "RegExp operands are not valid for logical comparisons",
      "Operand must be \"true\" or \"false\"",
      "Operand must be a number followed by a unit",
      "Operand must be a valid number",
      "Operand must be a valid date string" }

\* Finder.parse has returned or thrown on a one-leaf query whose scope is a
\* key of the registry.
ParsedRegisteredLeaf ==
    /\ pc \in {"parsed", "failed"}
    /\ LeafAt(query) # 0
    /\ WrittenLeaf(query, caseSensitive).scope \in DOMAIN qualifiers

\* C7 as stated: Finder.parse fails with a qualifier error exactly for the
\* leaves that break the listed operator rules of their scope (string/regex:
\* only ':', '=', '!=' and REGEXP only with ':'; comparable: no ':' and no
\* REGEXP; boolean: only '=', '!=' with operand 'true' or 'false').
C7_FailsIffListedRuleBroken ==
    ParsedRegisteredLeaf =>
        /\ (error # NoError) <=> BreaksListedRules(WrittenLeaf(query, caseSensitive))
        /\ error # NoError => error \in QualifierErrors

\* C7 amended: Finder.parse fails with a qualifier error exactly for the
\* leaves that break the operator rules or the operand rules of their scope:
\* the listed rules, and a REGEXP operand of a string/regex scope must be a
\* valid regular expression, the operand of a comparable scope must parse for
\* that scope, and the operand of a boolean scope must not be a REGEXP.
C7_FailsIffRuleBroken ==
    ParsedRegisteredLeaf =>
        /\ (error # NoError) <=> BreaksRules(WrittenLeaf(query, caseSensitive))
        /\ error # NoError => error \in QualifierErrors

\* 'time:2024-03-12' has been rejected for its ':'.
C7_Witness ==
    /\ pc = "failed"
    /\ query = <<QualifierPiece("time", ":"), Piece(KEYWORD, tDate)>>
    /\ error = "The \":\" operator is not valid for comparisons"

\* The castResult of the leaves of an AST, in leaf order.
CastResults(node) == [i \in DOMAIN LeafSeq(node) |-> LeafSeq(node)[i].castResult]

\* C10 as stated: a qualifier whose scope is written in any letter case is
\* tokenized as a QUALIFIER token and Finder.parse validates and casts its
\* leaf with the registry entry of that scope, as it does for the scope
\* written in lower case, whether caseSensitive is true or false.
C10_AnyCaseScopeResolved ==
    (pc \in {"parsed", "failed"} /\ LeafAt(query) > 1) =>
        LET lower == FinderParse(lowerQuery_scopeOnly(query), caseSensitive, tz) IN
        /\ tokens[1].type = QUALIFIER
        /\ error = lower.err
        /\ error = NoError => CastResults(ast) = CastResults(lower.node)

\* C9 as stated: with caseSensitive false the matcher is handed the query
\* result in lower case, a string as well as every string of a non-empty
\* array, so the verdict on a file is the verdict on the same file in lower
\* case.
LowerSource(src) ==
    [path |-> toLowerCase(src.path), file |-> toLowerCase(src.file), stats |-> src.stats,
     data |-> toLowerCase(src.data)]

C9_LowercasesEveryStringResult ==
    (pc = "matched" /\ ~caseSensitive) =>
        \A i \in DOMAIN matched :
            /\ matched[i].arg = lowerQueryResult_all(matched[i].queryResult)
            /\ matched[i].val = _match(LeafSeq(ast)[i], LowerSource(source), FALSE, tz).val

\* =================================================================
\* The size and time entries: Finder.parse and Finder._match of one
\* 'size' or 'time' leaf on one file record
\* =================================================================

tHalfK == <<"0", ".", "5", "k">>
tOneM == <<"1", "m">>
tOneUpperMb == <<"1", "M", "B">>
tOneG == <<"1", "g">>
tKb == <<"k", "b">>
tTenDotKb == <<"1", "0", ".", "k", "b">>
tDotFiveK == <<".", "5", "k">>
tTenB == <<"1", "0", "b">>
tTenKbs == <<"1", "0", "k", "b", "s">>
tDate11 == <<"2", "0", "2", "4", "-", "0", "3", "-", "1", "1">>
tDate13 == <<"2", "0", "2", "4", "-", "0", "3", "-", "1", "3">>

SizeOperands ==
    {tTenKb, tTenUpperKb, tOneAndHalfK, tHalfK, tOneM, tOneUpperMb, tOneG, tTen, tKb,
     tTenDotKb, tDotFiveK, tTenB, tTenKbs, tA}

DateOperands == {tDate11, tDate, tDate13, tA}

\* stats.size of the file records
FileSizes == {0, 511, 512, 1535, 1536, 10239, 10240, 10241, 12000, 1048576, 1073741824}

\* The days of March 2024 and the minutes of the local day the file records
\* were modified at.
FileDays == {11, 12, 13}
FileMinutes == {0, 900, 1439}

\* stats.mtime of a file modified on a day of March 2024, at a minute of
\* the local day, in a zone tzone minutes east of UTC
LocalTime(day, minute, tzone) == (DaysToMarch2024 + day - 1) * MinutesPerDay + minute - tzone

StatsQueries(scope, operands) ==
    {<<QualifierPiece(scope, OPERATORS[o]), Piece(g, w)>> :
        o \in DOMAIN OPERATORS, g \in {KEYWORD, PHRASE, REGEXP}, w \in operands}

\* A file record of which the entries read stats only; its text is not
\* written out.
StatsSource(size, mtime) ==
    [path |-> join(Root, <<"a", ".", "m", "d">>), file |-> <<"a", ".", "m", "d">>,
     stats |-> [size |-> size, mtime |-> mtime], data |-> <<>>]

StatsInit ==
    /\ Constructed(<<>>)
    /\ \/ /\ query \in StatsQueries("size", SizeOperands)
          /\ tz = 0
          /\ \E s \in FileSizes : source = StatsSource(s, SomeTime)
       \/ /\ query \in StatsQueries("time", DateOperands)
          /\ tz \in TimeZones
          /\ \E d \in FileDays, m \in FileMinutes : source = StatsSource(0, LocalTime(d, m, tz))
    /\ caseSensitive \in BOOLEAN
    /\ matched = <<>>
    /\ tokens = <<>>
    /\ ast = Undef
    /\ error = NoError
    /\ pc = "start"
    /\ ParserIdle
    /\ WalkIdle

SpecStats == StatsInit /\ [][MatchNext]_vars

\* The ways to read a text as digits, an optional '.' and digits, and a unit
\* k, m, g, kb, mb or gb in any letter case.
UnitPower(unit) ==
    CASE toLowerCase(unit) \in {<<"k">>, <<"k", "b">>} -> 1
      [] toLowerCase(unit) \in {<<"m">>, <<"m", "b">>} -> 2
      [] toLowerCase(unit) \in {<<"g">>, <<"g", "b">>} -> 3
      [] OTHER -> 0

SizeReadings(text) ==
    LET n == Len(text)
        whole == {[int |-> SubSeq(text, 1, i), frac |-> <<>>, unit |-> SubSeq(text, i + 1, n)] :
                    i \in 1..n}
        decimal == {[int |-> SubSeq(text, 1, p[1]), frac |-> SubSeq(text, p[1] + 2, p[2]),
                     unit |-> SubSeq(text, p[2] + 1, n)] :
                    p \in {q \in (1..n) \X (1..n) : q[1] + 2 <= q[2] /\ text[q[1] + 1] = "."}}
    IN {r \in whole \cup decimal :
            /\ \A i \in DOMAIN r.int : r.int[i] \in Digits
            /\ \A i \in DOMAIN r.frac : r.frac[i] \in Digits
            /\ UnitPower(r.unit) > 0}

RECURSIVE Pow1024(_)
Pow1024(n) == IF n = 0 THEN 1 ELSE 1024 * Pow1024(n - 1)

\* The byte count a reading writes: the number times 1024, 1024^2 or 1024^3
ByteCount(r) ==
    (NumberOfDigits(r.int \o r.frac) * Pow1024(UnitPower(r.unit))) \div Pow10(Len(r.frac))

\* a stands in the relation the operator names to b
InRelation(operator, a, b) ==
    CASE operator = "=" -> a = b
      [] operator = "!=" -> a # b
      [] operator = ">=" -> ~(a < b)
      [] operator = "<=" -> ~(b < a)
      [] operator = ">" -> b < a
      [] operator = "<" -> a < b
      [] OTHER -> FALSE

StatsLeaf(scope) == LeafAt(query) = 2 /\ query[1].SCOPE = scope

\* C11: a size operand is accepted exactly when it reads as digits, an
\* optional decimal part and a unit k, m, g, kb, mb or gb in any letter case
\* (and is no regular expression, and the operator is not ':'); it is cast to
\* the number times 1024, 1024^2 or 1024^3; and the leaf matches a file
\* exactly when the file's byte size stands in the operator's relation to
\* that byte count.
C11_SizeComparesByteCounts ==
    (pc \in {"parsed", "failed", "matched"} /\ StatsLeaf("size")) =>
        /\ (error = NoError) <=>
            /\ SizeReadings(WrittenLeaf(query, caseSensitive).operand) # {}
            /\ query[2].g # REGEXP
            /\ query[1].OPERATOR # ":"
        /\ error = NoError =>
            \A r \in SizeReadings(WrittenLeaf(query, caseSensitive).operand) :
                /\ ast.castResult = ByteCount(r)
                /\ pc = "matched" =>
                    matched[1].val = InRelation(query[1].OPERATOR, source.stats.size, ByteCount(r))

\* A file of 12000 bytes has been matched by 'size>10kb'.
C11_Witness ==
    /\ pc = "matched"
    /\ query = <<QualifierPiece("size", ">"), Piece(KEYWORD, tTenKb)>>
    /\ source.stats.size = 12000
    /\ matched[1].val

\* 'size>10' has been rejected.
C11_WitnessRejected ==
    /\ pc = "failed"
    /\ query = <<QualifierPiece("size", ">"), Piece(KEYWORD, tTen)>>

\* The local calendar day of a time, and the day a date operand writes, in
\* days since the epoch.
LocalDay(t, tzone) == (t + tzone) \div MinutesPerDay
OperandDay(operand) == DaysToMarch2024 + NumberOfDigits(SubSeq(operand, 9, 10)) - 1

\* C12 as stated: a time leaf compares the local calendar day of the file's
\* modification time with the day the operand writes: 'time=D' matches
\* exactly the files modified on the local calendar day D, and the other
\* operators order files by calendar day.
C12_TimeComparesLocalDays ==
    (pc = "matched" /\ StatsLeaf("time")) =>
        matched[1].val = InRelation(query[1].OPERATOR, LocalDay(source.stats.mtime, tz),
                                    OperandDay(query[2].text))

\* =================================================================
\* The registry: new Finder(), finder.setQualifiers(list),
\* finder.getGrammar(), and parse and _match of a leaf of a user's scope
\* =================================================================

MaxUserQualifiers == 2

\* Entries a user hands to setQualifiers: a complete one; one with a scope
\* and a query only; one without matchers; a complete one and one with a
\* scope and a query only for scopes that are built in.
UserQualifierPool ==
    { [scope |-> "my", query |-> "path", validate |-> "isStringOrRegexp",
       cast |-> "toStringOrRegexp", KEYWORD |-> "primitiveCompare",
       PHRASE |-> "primitiveCompare", REGEXP |-> "stringRegexp"],
      [scope |-> "tag", query |-> "file"],
      [scope |-> "my", query |-> "file", validate |-> "isStringOrRegexp",
       cast |-> "toStringOrRegexp"],
      [scope |-> "size", query |-> "size", validate |-> "isNumber", cast |-> "toNumber",
       KEYWORD |-> "primitiveCompare", PHRASE |-> "primitiveCompare",
       REGEXP |-> "stringRegexp"],
      [scope |-> "path", query |-> "path"] }

RegistryQueries ==
    {<<QualifierPiece(scope, operator), Piece(g, w)>> :
        scope \in {"my", "tag", "size", "path"}, operator \in {":", "=", ">"},
        g \in {KEYWORD, PHRASE, REGEXP}, w \in {tA, tTen}}

RegistrySources ==
    {[path |-> join(Root, f), file |-> f, stats |-> [size |-> Len(d), mtime |-> SomeTime],
      data |-> d] : f \in {<<"a">>, <<"1", "0">>}, d \in {<<"a">>, <<"a", "\n", "b", "\n", "b", "\n", "b", "\n", "b", "\n", "b">>}}

\* new Finder()
RegistryInit ==
    /\ FinderIdle
    /\ tokens = <<>>
    /\ ast = Undef
    /\ error = NoError
    /\ pc = "constructed"
    /\ ParserIdle
    /\ WalkIdle

\* The caller's arguments of finder.parse(query, caseSensitive) and of
\* finder._match(node, source, caseSensitive)
Arguments ==
    /\ pc = "constructed"
    /\ query' \in RegistryQueries
    /\ caseSensitive' \in BOOLEAN
    /\ source' \in RegistrySources
    /\ pc' = "start"
    /\ UNCHANGED <<raw, tokens, ast, error, leafFn, result, tz, matched, registryVars, walkVars>>

\* The lists a user hands to setQualifiers.
UserQualifierLists == UNION {[1..n -> UserQualifierPool] : n \in 0..MaxUserQualifiers}

\* finder.setQualifiers(list)
SetQualifiers ==
    /\ pc = "constructed"
    /\ \E list \in UserQualifierLists :
        /\ userQualifiers' = list
        /\ registry' = Registry(list)
        /\ parserScopes' = Range(Registry(list).keys)
        /\ parserOperators' = Range(OPERATORS)
    /\ filters' = NewFilters
    /\ UNCHANGED <<parserVars, query, caseSensitive, tz, source, matched, grammar, parsers,
                   parserCalls, walkVars>>

\* The <scope> and <operator> lines of Finder.getGrammar()
getGrammar(reg) == [scope |-> reg.keys, operator |-> OPERATORS]

\* finder.getGrammar()
GetGrammar ==
    /\ pc = "constructed"
    /\ grammar' = getGrammar(registry)
    /\ pc' = "grammar"
    /\ UNCHANGED <<raw, tokens, ast, error, leafFn, result, query, caseSensitive, tz, source,
                   matched, userQualifiers, registry, parserScopes, parserOperators,
                   markdownVars, walkVars>>

RegistryNext == SetQualifiers \/ GetGrammar \/ Arguments \/ Finder_parse \/ Match

SpecRegistry == RegistryInit /\ [][RegistryNext]_vars

\* The entry the user handed over last for a scope.
UserEntry(scope) ==
    userQualifiers[CHOOSE i \in DOMAIN userQualifiers :
                        /\ userQualifiers[i].scope = scope
                        /\ \A j \in (i + 1)..Len(userQualifiers) : userQualifiers[j].scope # scope]

UserScopes == {userQualifiers[i].scope : i \in DOMAIN userQualifiers}

\* The field of an entry, the default when the entry omits it.
FieldOr(entry, field, default) == IF field \in DOMAIN entry THEN entry[field] ELSE default

\* The entry with the default for every function it omits.
WithDefaults(entry) ==
    [scope |-> entry.scope,
     query |-> entry.query,
     validate |-> FieldOr(entry, "validate", "isStringOrRegexp"),
     cast |-> FieldOr(entry, "cast", "toStringOrRegexp"),
     KEYWORD |-> FieldOr(entry, KEYWORD, "primitiveCompare"),
     PHRASE |-> FieldOr(entry, PHRASE, FieldOr(entry, KEYWORD, "primitiveCompare")),
     REGEXP |-> FieldOr(entry, REGEXP, "stringRegexp")]

\* C17 as stated: every entry of the registry, built in or handed over by
\* the user, has validate, cast, KEYWORD, PHRASE and REGEXP, the defaults
\* standing in for what the entry omitted; so Finder.parse and _match never
\* fail for a missing function on a leaf of a registered scope.
C17_EveryEntryHasItsFunctions ==
    /\ \A s \in DOMAIN registry.entries :
            {"validate", "cast", KEYWORD, PHRASE, REGEXP} \subseteq DOMAIN registry.entries[s]
    /\ \A s \in UserScopes : registry.entries[s] = WithDefaults(UserEntry(s))
    /\ pc \in {"parsed", "failed"} => error # "TypeError"
    /\ pc = "matched" => \A i \in DOMAIN matched : matched[i].err = NoError

\* The same of the built-in entries alone.
C17_BuiltInEntriesHaveTheirFunctions ==
    \A s \in DOMAIN registry.entries \ UserScopes :
        /\ {"validate", "cast", KEYWORD, PHRASE, REGEXP} \subseteq DOMAIN registry.entries[s]
        /\ registry.entries[s].PHRASE = registry.entries[s].KEYWORD
                \/ s \in Range(MarkdownScopes)

\* C18: after construction and after every setQualifiers call, the registry
\* holds the built-in entries and the entries of the latest call, one per
\* scope, an entry of the user replacing the built-in entry of its scope; the
\* scopes of the tokenizer are the keys of the registry and its operators are
\* the seven operators; getGrammar lists every key of the registry once.
C18_TokenizerFollowsRegistry ==
    /\ DOMAIN registry.entries = DOMAIN qualifiers \cup UserScopes
    /\ \A s \in DOMAIN registry.entries :
            registry.entries[s] = IF s \in UserScopes THEN UserEntry(s) ELSE qualifiers[s]
    /\ parserScopes = DOMAIN registry.entries
    /\ parserOperators = {":", "=", "!=", ">=", "<=", ">", "<"}
    /\ pc \in {"parsed", "failed"} => tokens[1].type = QUALIFIER
    /\ pc = "grammar" =>
            /\ \A s \in DOMAIN registry.entries :
                    Cardinality({i \in DOMAIN grammar.scope : grammar.scope[i] = s}) = 1
            /\ Range(grammar.scope) = DOMAIN registry.entries
            /\ Range(grammar.operator) = parserOperators
            /\ Len(grammar.operator) = 7

\* C18 witness: after setQualifiers with two entries of the scope 'my',
\* getGrammar has listed 'my' once.
C18_Witness ==
    /\ pc = "grammar"
    /\ Len(userQualifiers) = 2
    /\ userQualifiers[1].scope = "my" /\ userQualifiers[2].scope = "my"
    /\ userQualifiers[1] # userQualifiers[2]
    /\ Cardinality({i \in DOMAIN grammar.scope : grammar.scope[i] = "my"}) = 1

\* After setQualifiers with an entry of the scope 'size', 'size>10' has been
\* accepted by the user's entry.
C18_WitnessReplaced ==
    /\ pc = "parsed"
    /\ "size" \in UserScopes
    /\ query = <<QualifierPiece("size", ">"), Piece(KEYWORD, tTen)>>

\* =================================================================
\* Finder.find over a directory tree
\* =================================================================

MaxFiles == 2

FileEntry(name, data) == [name |-> name, kind |-> "file", data |-> data]
DirEntry(name, entries) == [name |-> name, kind |-> "dir", entries |-> entries]
\* A file whose stats.size is not the length of the text the model gives it
SizedFileEntry(name, data, size) == [name |-> name, kind |-> "file", data |-> data, size |-> size]
\* An entry that is neither a file nor a directory (a socket, a FIFO)
OtherEntry(name) == [name |-> name, kind |-> "other"]

\* What a directory may list.
EntryPool ==
    { FileEntry(<<"a", ".", "m", "d">>, <<"a">>),
      FileEntry(<<"B", ".", "m", "d">>, <<"A", "\n", "b">>),
      FileEntry(<<"b", ".", "t", "x", "t">>, <<"b">>),
      FileEntry(<<"c", ".", "j", "s">>, <<"a">>),
      FileEntry(<<".", "h", ".", "m", "d">>, <<"a">>),
      DirEntry(<<"s", "u", "b">>, <<FileEntry(<<"e", ".", "m", "d">>, <<"b">>), FileEntry(<<"d", ".", "m", "d">>, <<"b", " ", "a">>)>>),
      DirEntry(<<".", "g", "i", "t">>, <<FileEntry(<<"x", ".", "m", "d">>, <<"a">>)>>) }

\* The file system under a directory: one record per path, a directory with
\* the names readdir lists, a file with what stat and readFile give.
RECURSIVE Flatten(_, _)
Flatten(path, entries) ==
    {[path |-> path, kind |-> "dir", files |-> [i \in DOMAIN entries |-> entries[i].name]]}
    \cup UNION {IF entries[i].kind = "file"
                THEN {[path |-> join(path, entries[i].name), kind |-> "file",
                       stats |-> [size |-> IF "size" \in DOMAIN entries[i] THEN entries[i].size
                                           ELSE Len(entries[i].data),
                                  mtime |-> SomeTime],
                       data |-> entries[i].data]}
                ELSE IF entries[i].kind = "dir"
                THEN Flatten(join(path, entries[i].name), entries[i].entries)
                ELSE {[path |-> join(path, entries[i].name), kind |-> "other"]}
                : i \in DOMAIN entries}

Lookup(tree, path) == CHOOSE e \in tree : e.path = path

FindQueries ==
    { <<Piece(KEYWORD, tA)>>,
      <<Piece(KEYWORD, tUpperA)>>,
      <<Piece(KEYWORD, tA), Piece(AND, <<" ">>), Piece(OR, <<"|">>), Piece(AND, <<" ">>),
        Piece(KEYWORD, tB)>>,
      <<Piece(KEYWORD, tB), Piece(AND, <<" ">>), Piece(NOT, <<"-">>), Piece(KEYWORD, tA)>>,
      <<QualifierPiece("line", "="), Piece(KEYWORD, tA)>>,
      <<>>,
      <<Piece(AND, <<" ">>)>>,
      <<Piece(KEYWORD, tA), Piece(AND, <<" ">>), Piece(OR, <<"|">>)>>,
      <<QualifierPiece("time", ":"), Piece(KEYWORD, tDate)>> }

FindInit ==
    /\ Constructed(<<>>)
    /\ query \in FindQueries
    /\ caseSensitive \in BOOLEAN
    /\ tz = 0
    /\ dir \in {<<>>, Root}
    /\ \E n \in 0..MaxFiles : \E entries \in [1..n -> EntryPool] :
        /\ \A i, j \in 1..n : entries[i].name = entries[j].name => i = j
        /\ fs = Flatten(Root, entries)
    /\ source = NoSource
    /\ matched = <<>>
    /\ tokens = <<>>
    /\ ast = Undef
    /\ error = NoError
    /\ pc = "created"
    /\ stack = <<>>
    /\ emitted = <<>>
    /\ yielded = <<>>
    /\ io = <<>>
    /\ dirChecked = FALSE
    /\ asked = 0
    /\ stopped = FALSE
    /\ evals = <<>>
    /\ ParserIdle

findByAstEnabled_early(p) == p \in {"start", "parsed"}

\* find: const ast = this.parse(...); if (ast) yield* this.findByAst(...)
findByAstEnabled(p) == p = "parsed"

shouldYield_always(ok) == TRUE

\* _find: if (ok) yield source
shouldYield(ok) == ok

afterYield_eager == "walk"

\* _find: yield source suspends the generator until the consumer's next()
afterYield == "yielded"

afterReturn_ignored == "walk"

\* The generators after the consumer's return(): completed
afterReturn == "returned"

Top == stack[Len(stack)]
Pop == SubSeq(stack, 1, Len(stack) - 1)
Frame(d, files, opened) == [dir |-> d, files |-> files, opened |-> opened]
\* the top frame after its for loop has moved to the next file
Advance == Pop \o <<Frame(Top.dir, Tail(Top.files), TRUE)>>

\* findByAst: genTraverser(dir) checks dir and creates the walker, which has
\* not run yet
FindByAst ==
    /\ findByAstEnabled(pc)
    /\ dirChecked' = TRUE
    /\ IF dir = <<>>
       THEN /\ error' = "dir is must"
            /\ pc' = "failed"
            /\ stack' = stack
       ELSE /\ error' = error
            /\ pc' = "walk"
            /\ stack' = <<Frame(dir, <<>>, FALSE)>>
    /\ UNCHANGED <<raw, tokens, ast, leafFn, result, finderVars, dir, fs, emitted, yielded, io,
                   consumerVars>>

\* traverse(dir): const files = await readdir(dir)
Readdir ==
    /\ pc = "walk"
    /\ stack # <<>>
    /\ ~Top.opened
    /\ io' = Append(io, <<"readdir", Top.dir>>)
    /\ stack' = Pop \o <<Frame(Top.dir, Lookup(fs, Top.dir).files, TRUE)>>
    /\ UNCHANGED <<parserVars, finderVars, dir, fs, emitted, yielded, dirChecked, consumerVars>>

\* const stats = await stat(path), and the branch taken on it
Stat ==
    /\ pc = "walk"
    /\ stack # <<>>
    /\ Top.opened
    /\ Top.files # <<>>
    /\ LET file == Head(Top.files)
           path == join(Top.dir, file)
           entry == Lookup(fs, path)
       IN /\ io' = Append(io, <<"stat", path>>)
          /\ IF entry.kind = "file"
             THEN IF fileFilters(file, path, entry.stats)
                  THEN pc' = "read" /\ stack' = stack
                  ELSE pc' = pc /\ stack' = Advance
             ELSE IF entry.kind = "dir" /\ dirFilters(file, path)
                  THEN pc' = pc /\ stack' = Advance \o <<Frame(path, <<>>, FALSE)>>
                  ELSE pc' = pc /\ stack' = Advance
    /\ UNCHANGED <<raw, tokens, ast, error, leafFn, result, finderVars, dir, fs, emitted, yielded,
                   dirChecked, consumerVars>>

\* const data = await readFile(path); yield { path, file, stats, data }
ReadFile ==
    /\ pc = "read"
    /\ LET file == Head(Top.files)
           path == join(Top.dir, file)
           entry == Lookup(fs, path)
           record == [path |-> path, file |-> file, stats |-> entry.stats, data |-> entry.data]
       IN /\ io' = Append(io, <<"readFile", path>>)
          /\ source' = record
          /\ emitted' = Append(emitted, record)
    /\ stack' = Advance
    /\ pc' = "emitted"
    /\ UNCHANGED <<raw, tokens, ast, error, leafFn, result, query, caseSensitive, tz, matched,
                   registryVars, dir, fs, yielded, dirChecked, consumerVars>>

\* The body of the for await loop of _find on the record just emitted
Find ==
    /\ pc = "emitted"
    /\ LET callback == matchCallback(ast, source, caseSensitive, tz)
           r == evaluate(ast, callback)
       IN /\ leafFn' = callback
          /\ result' = r
          /\ IF r.err # NoError
             THEN error' = r.err /\ pc' = "failed" /\ yielded' = yielded
             ELSE IF shouldYield(r.val)
             THEN error' = error /\ pc' = afterYield /\ yielded' = Append(yielded, source)
             ELSE error' = error /\ pc' = "walk" /\ yielded' = yielded
    /\ evals' = Append(evals, source)
    /\ UNCHANGED <<raw, tokens, ast, finderVars, dir, fs, stack, emitted, io, dirChecked, asked,
                   stopped>>

\* The consumer asks for the next record: next() on the generator find
\* returned starts its body, next() after a yield resumes it
Resume ==
    /\ pc \in {"created", "yielded"}
    /\ pc' = IF pc = "created" THEN "start" ELSE "walk"
    /\ asked' = asked + 1
    /\ UNCHANGED <<raw, tokens, ast, error, leafFn, result, finderVars, dir, fs, stack, emitted,
                   yielded, io, dirChecked, stopped, evals>>

\* The consumer stops reading: break out of for await, or return() on the
\* iterator, while the generator is suspended; yield* and for await hand the
\* return to the generators of traverse at every depth
Cancel ==
    /\ pc \in {"created", "yielded"}
    /\ stopped' = TRUE
    /\ pc' = afterReturn
    /\ UNCHANGED <<raw, tokens, ast, error, leafFn, result, finderVars, dir, fs, stack, emitted,
                   yielded, io, dirChecked, asked, evals>>

\* The for loop of traverse(dir) is over
Return ==
    /\ pc = "walk"
    /\ stack # <<>>
    /\ Top.opened
    /\ Top.files = <<>>
    /\ stack' = Pop
    /\ pc' = IF Pop = <<>> THEN "done" ELSE pc
    /\ UNCHANGED <<raw, tokens, ast, error, leafFn, result, finderVars, dir, fs, emitted, yielded, io,
                   dirChecked, consumerVars>>

FindNext ==
    Finder_parse \/ FindByAst \/ Readdir \/ Stat \/ ReadFile \/ Find \/ Resume \/ Cancel \/ Return

SpecFind == FindInit /\ [][FindNext]_vars

\* =================================================================
\* Claims about Finder.find
\* =================================================================

\* The records evaluate has been run on.
Evaluated == IF pc = "emitted" THEN SubSeq(emitted, 1, Len(emitted) - 1) ELSE emitted

\* evaluate(ast, leaf-match) on a record
Ok(record) == evaluate(ast, matchCallback(ast, record, caseSensitive, tz)).val

\* C1: the records find has yielded are exactly the records the walker
\* emitted for which evaluate(ast, leaf-match) is true, each once and in the
\* order the walker emitted them; a record for which evaluate is false is
\* never yielded.
C1_YieldsExactlyTheMatches ==
    pc \in {"walk", "read", "emitted", "yielded", "done"} =>
        /\ yielded = SelectSeq(Evaluated, Ok)
        /\ \A i, j \in DOMAIN yielded : yielded[i] = yielded[j] => i = j

\* Three records have been emitted and the first and the third yielded.
C1_Witness ==
    /\ pc = "done"
    /\ Len(emitted) = 3
    /\ yielded = <<emitted[1], emitted[3]>>

\* The query is one Finder.parse refuses.
QueryError == FinderParse(query, caseSensitive, tz).err # NoError

\* C8: a call of find whose query is refused or whose dir is missing performs
\* no I/O operation at all, and a call whose query is refused never gets to
\* look at dir: the query error is what it raises.
C8_ErrorsBeforeAnyIO ==
    /\ (QueryError \/ dir = <<>>) => io = <<>>
    /\ QueryError => ~dirChecked
    /\ (QueryError /\ pc = "failed") => error = FinderParse(query, caseSensitive, tz).err
    /\ (~QueryError /\ dir = <<>> /\ pc = "failed") => error = "dir is must"

\* find has failed on 'time:2024-03-12' with no dir.
C8_Witness ==
    /\ pc = "failed"
    /\ dir = <<>>
    /\ query = <<QualifierPiece("time", ":"), Piece(KEYWORD, tDate)>>
    /\ error = "The \":\" operator is not valid for comparisons"
    /\ io = <<>>

\* The files read and not yet evaluated.
InFlight == Len(emitted) - Len(evals)

\* C19: within one call files are processed one at a time and on demand: at
\* most one file is read and not yet evaluated; a file is read only when
\* every file read before it has been evaluated and the consumer has asked
\* for one more result than it has been given, so after a match only once
\* the consumer has asked for the next result.
C19_OneFileAtATimeOnDemand ==
    /\ [](InFlight \in {0, 1})
    /\ [][emitted' # emitted => (evals = emitted /\ asked = Len(yielded) + 1)]_vars

\* C19 witness: the first file read was yielded, the consumer asked again,
\* and a second file has been read.
C19_Witness ==
    /\ pc = "emitted"
    /\ Len(emitted) = 2
    /\ yielded = <<emitted[1]>>
    /\ asked = 2

\* C20: once the consumer has stopped reading, after any number of results,
\* the call does no further readdir, stat or readFile and evaluates no
\* further file, at whatever depth of the directory walk it stood.
C20_NothingAfterCancel ==
    [][stopped => (io' = io /\ evals' = evals /\ emitted' = emitted /\ yielded' = yielded)]_vars

\* C20 witness: the consumer has stopped after one result from a
\* sub-directory in which a file is left to visit.
C20_Witness ==
    /\ stopped
    /\ Len(yielded) = 1
    /\ Len(stack) = 2
    /\ Top.files # <<>>

\* =================================================================
\* Claims about the output of tokenize

\* C30: in the output of tokenize no AND token comes right after OR, AND,
\* NOT, PAREN_OPEN or QUALIFIER and none comes right before OR, AND, NOT or
\* PAREN_CLOSE; so no pair that the FOLLOW rule of check refuses has an AND in
\* it, and check refuses an AND only as the first or the last token.
C30_NoAndBesideOperator ==
    /\ \A i \in DOMAIN tokens : tokens[i].type = AND =>
        /\ (i > 1 => tokens[i - 1].type \notin {OR, AND, NOT, PAREN_OPEN, QUALIFIER})
        /\ (i < Len(tokens) => tokens[i + 1].type \notin {OR, AND, NOT, PAREN_CLOSE})
    /\ \A i \in 1..(Len(tokens) - 1) :
        (tokens[i].type \in DOMAIN FOLLOW /\ tokens[i + 1].type \in FOLLOW[tokens[i].type])
            => (tokens[i].type # AND /\ tokens[i + 1].type # AND)
    /\ (check(tokens) = "Invalid token sequence" /\ FirstBadFollow(tokens) # 0)
            => AND \notin {tokens[FirstBadFollow(tokens)].type, tokens[FirstBadFollow(tokens) + 1].type}

\* C30 witness: tokenize dropped an AND that stood before a NOT and kept an
\* AND between two keywords.
C30_Witness ==
    /\ pc = "parsed"
    /\ \E j \in 1..(Len(raw) - 1) : raw[j].type = AND /\ raw[j + 1].type = NOT
    /\ \E i \in 2..(Len(tokens) - 1) :
        tokens[i].type = AND /\ tokens[i - 1].type = KEYWORD /\ tokens[i + 1].type = KEYWORD
    /\ Len(tokens) < Len(raw)

\* =================================================================
\* evaluate and traverse on an AST the caller built

\* Node types that evaluate and traverse have no case for.
UnknownTypes == {QUALIFIER, "HEADING"}

GivenLeaves == {DefaultLeaf(<<"a">>), DefaultLeaf(<<"b">>)} \cup {[type |-> u] : u \in UnknownTypes}

\* The trees one level above a set of trees; a NOT may have no left child.
Above(trees) ==
    {[type |-> t, left |-> l, right |-> r] : t \in {OR, AND, NOT}, l \in trees, r \in trees}
        \cup {[type |-> NOT, left |-> Undef, right |-> r] : r \in trees}

GivenAsts == GivenLeaves \cup Above(GivenLeaves) \cup Above(GivenLeaves \cup Above(GivenLeaves))

AstInit ==
    /\ FinderIdle
    /\ ast \in GivenAsts
    /\ raw = <<>>
    /\ tokens = <<>>
    /\ error = NoError
    /\ leafFn = <<>>
    /\ result = NoResult
    /\ pc = "parsed"
    /\ WalkIdle

AstNext == Evaluate \/ Traverse

SpecAst == AstInit /\ [][AstNext]_vars

\* A node of the tree has a type that is neither a leaf type nor OR, AND, NOT.
RECURSIVE ContainsUnknown(_)
ContainsUnknown(node) ==
    IF node = Undef \/ IsLeafType(node.type) THEN FALSE
    ELSE IF node.type \in {OR, AND, NOT}
    THEN ContainsUnknown(node.left) \/ ContainsUnknown(node.right)
    ELSE TRUE

\* What the evaluation of a tree under f comes to when the right side of an
\* OR is skipped after a true left side and the right side of an AND or NOT
\* after a false one: "true", "false", or "unknown" when it comes to a node
\* of unknown type.
RECURSIVE Outcome(_, _)
Outcome(node, f) ==
    CASE IsLeafType(node.type) -> IF f[node] THEN "true" ELSE "false"
      [] node.type = OR ->
            IF Outcome(node.left, f) # "false" THEN Outcome(node.left, f)
            ELSE Outcome(node.right, f)
      [] node.type = AND ->
            IF Outcome(node.left, f) # "true" THEN Outcome(node.left, f)
            ELSE Outcome(node.right, f)
      [] node.type = NOT ->
            IF node.left # Undef /\ Outcome(node.left, f) # "true" THEN Outcome(node.left, f)
            ELSE CASE Outcome(node.right, f) = "true" -> "false"
                   [] Outcome(node.right, f) = "false" -> "true"
                   [] OTHER -> "unknown"
      [] OTHER -> "unknown"

\* C26: traverse raises 'Unknown AST node' for every AST that has a node of
\* unknown type and for no other; evaluate raises it exactly when the
\* evaluation comes to such a node, and returns the value of the tree when
\* short-circuiting skips every such node.
C26_UnknownNodeRaises ==
    /\ pc = "traversed" =>
        /\ ContainsUnknown(ast) => result.err = "Unknown AST node"
        /\ ~ContainsUnknown(ast) => result.err = NoError
    /\ pc = "evaluated" =>
        /\ Outcome(ast, leafFn) = "unknown" => result.err = "Unknown AST node"
        /\ Outcome(ast, leafFn) # "unknown" =>
            /\ result.err = NoError
            /\ result.val = (Outcome(ast, leafFn) = "true")

\* C26 witness: evaluate has raised on an AND whose left leaf is true and
\* whose right node is of unknown type.
C26_Witness ==
    /\ pc = "evaluated"
    /\ ast.type = AND
    /\ IsLeafType(ast.left.type) /\ leafFn[ast.left]
    /\ ast.right.type \in UnknownTypes
    /\ result.err = "Unknown AST node"

\* evaluate has returned true on an OR whose right node is of unknown type,
\* the left leaf being true.
C26_WitnessSkipped ==
    /\ pc = "evaluated"
    /\ ast.type = OR
    /\ IsLeafType(ast.left.type) /\ leafFn[ast.left]
    /\ ast.right.type \in UnknownTypes
    /\ result.err = NoError /\ result.val

\* =================================================================
\* Claims about what Parser.parse returns

\* Every AND and OR node below has two children and every NOT node a right
\* child, and every node is a leaf or one of these.
RECURSIVE WellFormed(_)
WellFormed(node) ==
    IF node = Undef THEN FALSE
    ELSE IF IsLeafType(node.type) THEN TRUE
    ELSE IF node.type \in {OR, AND}
    THEN WellFormed(node.left) /\ WellFormed(node.right)
    ELSE IF node.type = NOT
    THEN (node.left = Undef \/ WellFormed(node.left)) /\ WellFormed(node.right)
    ELSE FALSE

\* The types of the OR, AND and NOT nodes of a tree, left to right.
RECURSIVE OperatorSeq(_)
OperatorSeq(node) ==
    IF node = Undef \/ IsLeafType(node.type) THEN <<>>
    ELSE OperatorSeq(node.left) \o <<node.type>> \o OperatorSeq(node.right)

\* The types of the OR, AND and NOT tokens of a stream, left to right.
RECURSIVE OperatorTokens(_)
OperatorTokens(ts) ==
    IF ts = <<>> THEN <<>>
    ELSE (IF ts[1].type \in {OR, AND, NOT} THEN <<ts[1].type>> ELSE <<>>) \o OperatorTokens(Tail(ts))

\* Two match items with no operator between them: a leaf or a closing
\* parenthesis right before a leaf, a prefix or an opening parenthesis.
AdjacentItems(ts) ==
    \E i \in 1..(Len(ts) - 1) :
        /\ ts[i].type \in {KEYWORD, PHRASE, REGEXP, PAREN_CLOSE}
        /\ ts[i + 1].type \in {KEYWORD, PHRASE, REGEXP, PAREN_OPEN, QUALIFIER}

\* C27: when check accepts the tokens of a query, Parser.parse either returns
\* a defined AST that holds every leaf token and every OR, AND and NOT token
\* of the stream, in which every AND and OR node has two defined children and
\* every NOT node a defined right child, or fails with a parse error: it
\* returns no undefined AST, reads no token past the end of the stream (no
\* TypeError), and fails whenever two match items have no operator between
\* them.
C27_ParseReturnsWholeTreeOrRaises ==
    (pc \in {"parsed", "failed"} /\ tokens # <<>> /\ check(tokens) = NoError) =>
        /\ pc = "parsed" =>
            /\ error = NoError
            /\ ast # Undef
            /\ WellFormed(ast)
            /\ [n \in DOMAIN LeafSeq(ast) |->
                    [type |-> LeafSeq(ast)[n].type, operand |-> LeafSeq(ast)[n].operand]]
                = LeafTokens(tokens)
            /\ OperatorSeq(ast) = OperatorTokens(tokens)
        /\ pc = "failed" => error \in {"Parse error. Failed to parse tokens", "Unmatched PAREN_OPEN"}
        /\ AdjacentItems(tokens) => pc = "failed"

\* C27 witness: 'w1(w3)', which check accepts, has failed with tokens left.
C27_Witness ==
    /\ pc = "failed"
    /\ tokens = Stream(<<KEYWORD, PAREN_OPEN, KEYWORD, PAREN_CLOSE>>)
    /\ check(tokens) = NoError
    /\ error = "Parse error. Failed to parse tokens"

\* A query that starts with NOT and has an OR followed by NOT has been
\* parsed into a tree.
C27_WitnessParsed ==
    /\ pc = "parsed"
    /\ tokens = Stream(<<NOT, KEYWORD, OR, NOT, KEYWORD>>)
    /\ WellFormed(ast)
    /\ ast.type = OR /\ ast.left.type = NOT /\ ast.left.left = Undef

\* =================================================================
\* Claims about the callback of Finder.parse

\* What this.parser.parse returns for the query of the state.
Parsed == parse(IF caseSensitive THEN query ELSE lowerQuery(query))

\* The first n calls of a callback that calls validate and then cast on each
\* leaf of the parsed AST, once, from left to right.
ValidateThenCast(n) ==
    [i \in 1..n |-> [fn |-> IF i % 2 = 1 THEN "validate" ELSE "cast",
                     leaf |-> LeafSeq(Parsed.node)[(i + 1) \div 2]]]

\* C23: Finder.parse visits each leaf of the parsed AST once and calls, on
\* each, validate and then cast, whose value the leaf gets as castResult;
\* when validate raises for a leaf, the calls end with that validate, the
\* leaf is not cast, parse fails and returns no AST.
C23_ValidateThenCastOncePerLeaf ==
    (pc \in {"parsed", "failed"} /\ query # <<>> /\ Parsed.err = NoError) =>
        /\ pc = "parsed" =>
            /\ result.calls = ValidateThenCast(2 * Len(LeafSeq(Parsed.node)))
            /\ Len(LeafSeq(ast)) = Len(LeafSeq(Parsed.node))
            /\ \A k \in DOMAIN LeafSeq(ast) : "castResult" \in DOMAIN LeafSeq(ast)[k]
        /\ pc = "failed" =>
            /\ ast = Undef
            /\ \E k \in DOMAIN LeafSeq(Parsed.node) :
                result.calls = ValidateThenCast(IF error = "TypeError" THEN 2 * k - 2
                                                ELSE 2 * k - 1)

\* C23 witness: 'a size>a' has failed in the validate of its second leaf,
\* after the validate and the cast of the first.
C23_Witness ==
    /\ pc = "failed"
    /\ Len(LeafSeq(Parsed.node)) = 2
    /\ Len(result.calls) = 3
    /\ result.calls[3].fn = "validate"
    /\ result.calls[3].leaf.scope = "size"
    /\ ast = Undef

\* 'a size>10kb' has been parsed: two leaves, four calls.
C23_WitnessParsed ==
    /\ pc = "parsed"
    /\ Len(LeafSeq(ast)) = 2
    /\ Len(result.calls) = 4
    /\ LeafSeq(ast)[2].castResult = 10240

\* =================================================================
\* The walk from the entries readdir lists to the records emitted, with I/O
\* operations that may fail

tReadme == <<"R", "E", "A", "D", "M", "E">>
tNodeModules == <<"n", "o", "d", "e", "_", "m", "o", "d", "u", "l", "e", "s">>

\* What a directory may list: names with and without extension, in either
\* letter case, hidden names, sizes around 10 MiB, excluded directories,
\* directories in directories, and an entry that is no file and no directory.
WalkPool ==
    { FileEntry(<<"a", ".", "m", "d">>, <<"a">>),
      FileEntry(<<"n", ".", "M", "D">>, <<"a">>),
      FileEntry(tReadme, <<"a">>),
      FileEntry(<<"a", ".">>, <<"a">>),
      FileEntry(<<"c", ".", "j", "s">>, <<"a">>),
      FileEntry(<<".", "h", ".", "m", "d">>, <<"a">>),
      SizedFileEntry(<<"b", "i", "g", ".", "m", "d">>, <<"a">>, DefaultMaxSize),
      SizedFileEntry(<<"m", "a", "x", ".", "m", "d">>, <<"a">>, DefaultMaxSize - 1),
      OtherEntry(<<"p", ".", "m", "d">>),
      DirEntry(tNodeModules, <<FileEntry(<<"y", ".", "m", "d">>, <<"a">>)>>),
      DirEntry(<<".", "g", "i", "t">>, <<FileEntry(<<"x", ".", "m", "d">>, <<"a">>)>>),
      DirEntry(<<"t">>,
               << DirEntry(tNodeModules, <<FileEntry(<<"z", ".", "m", "d">>, <<"a">>)>>),
                  DirEntry(<<"u">>, <<FileEntry(<<"f", ".", "m", "d">>, <<"b">>),
                                      FileEntry(<<"g", ".", "t", "x", "t">>, <<"a">>)>>),
                  FileEntry(<<"k", ".", "m", "d">>, <<"a">>) >>) }

\* find(query, Root, false) on a tree, the query being 'a' or '-a'
WalkInit ==
    /\ Constructed(<<>>)
    /\ query \in {<<Piece(KEYWORD, tA)>>, <<Piece(NOT, <<"-">>), Piece(KEYWORD, tA)>>}
    /\ caseSensitive = FALSE
    /\ tz = 0
    /\ dir = Root
    /\ \E n \in 0..MaxFiles : \E entries \in [1..n -> WalkPool] :
        /\ \A i, j \in 1..n : entries[i].name = entries[j].name => i = j
        /\ fs = Flatten(Root, entries)
    /\ source = NoSource
    /\ matched = <<>>
    /\ tokens = <<>>
    /\ ast = Undef
    /\ error = NoError
    /\ pc = "created"
    /\ stack = <<>>
    /\ emitted = <<>>
    /\ yielded = <<>>
    /\ io = <<>>
    /\ dirChecked = FALSE
    /\ asked = 0
    /\ stopped = FALSE
    /\ evals = <<>>
    /\ ParserIdle

afterIoError_swallowed == "walk"

\* await readdir / stat / readFile rejects: the exception leaves traverse,
\* the yield* chain and the for await of _find, and ends the stream
afterIoError == "failed"

\* const files = await readdir(dir) rejects
ReaddirFails ==
    /\ pc = "walk"
    /\ stack # <<>>
    /\ ~Top.opened
    /\ io' = Append(io, <<"readdir", Top.dir>>)
    /\ error' = "readdir failed"
    /\ pc' = afterIoError
    /\ UNCHANGED <<raw, tokens, ast, leafFn, result, finderVars, dir, fs, stack, emitted, yielded,
                   dirChecked, consumerVars>>

\* const stats = await stat(path) rejects
StatFails ==
    /\ pc = "walk"
    /\ stack # <<>>
    /\ Top.opened
    /\ Top.files # <<>>
    /\ io' = Append(io, <<"stat", join(Top.dir, Head(Top.files))>>)
    /\ error' = "stat failed"
    /\ pc' = afterIoError
    /\ UNCHANGED <<raw, tokens, ast, leafFn, result, finderVars, dir, fs, stack, emitted, yielded,
                   dirChecked, consumerVars>>

\* const data = await readFile(path) rejects
ReadFileFails ==
    /\ pc = "read"
    /\ io' = Append(io, <<"readFile", join(Top.dir, Head(Top.files))>>)
    /\ error' = "readFile failed"
    /\ pc' = afterIoError
    /\ UNCHANGED <<raw, tokens, ast, leafFn, result, finderVars, dir, fs, stack, emitted, yielded,
                   dirChecked, consumerVars>>

WalkNext == FindNext \/ ReaddirFails \/ StatFails \/ ReadFileFails

SpecWalk == WalkInit /\ [][WalkNext]_vars

\* ---- which entries the walk is to emit

LastSlash(path) == CHOOSE i \in DOMAIN path : path[i] = "/" /\ \A j \in (i + 1)..Len(path) : path[j] # "/"
NameOf(path) == SubSeq(path, LastSlash(path) + 1, Len(path))
Parent(path) == SubSeq(path, 1, LastSlash(path) - 1)

\* The extension of a name: what follows its last '.', nothing when it has
\* no '.' or only a leading one.
Extension(name) ==
    LET dots == {i \in DOMAIN name : name[i] = "." /\ i > 1} IN
    IF dots = {} THEN <<>>
    ELSE SubSeq(name, (CHOOSE i \in dots : \A j \in dots : j <= i) + 1, Len(name))

\* Every directory from below the root down to this one has a name that does
\* not start with '.' and is neither '.git' nor 'node_modules'.
RECURSIVE DirAllowed(_)
DirAllowed(path) ==
    \/ path = Root
    \/ /\ NameOf(path)[1] # "."
       /\ NameOf(path) \notin {<<".", "g", "i", "t">>, tNodeModules}
       /\ DirAllowed(Parent(path))

\* A regular file that passes the default file filters, in a directory that
\* the walk may enter.
FileAllowed(e) ==
    /\ e.kind = "file"
    /\ NameOf(e.path)[1] # "."
    /\ e.stats.size < 10 * 1024 * 1024
    /\ toLowerCase(Extension(NameOf(e.path))) \in DefaultExtensions
    /\ DirAllowed(Parent(e.path))

Before(op, k) == \E j \in 1..(k - 1) : io[j] = op

\* C22: the walker emits a record for an entry if and only if the entry is a
\* regular file that passes every file filter and lies in directories that
\* all pass every directory filter: every record emitted is of such an entry,
\* with its path, name, stats and bytes, none twice, and a finished walk has
\* emitted all of them; a file is read only after its stat and only when it
\* passed the filters, and only the root and directories that passed are
\* listed.
C22_EmitsExactlyTheFilteredFiles ==
    /\ \A i \in DOMAIN emitted :
        /\ FileAllowed(Lookup(fs, emitted[i].path))
        /\ emitted[i] = [path |-> emitted[i].path, file |-> NameOf(emitted[i].path),
                         stats |-> Lookup(fs, emitted[i].path).stats,
                         data |-> Lookup(fs, emitted[i].path).data]
        /\ \A j \in DOMAIN emitted : emitted[i].path = emitted[j].path => i = j
    /\ pc = "done" =>
        {emitted[i].path : i \in DOMAIN emitted} = {e.path : e \in {x \in fs : FileAllowed(x)}}
    /\ \A k \in DOMAIN io :
        /\ io[k][1] = "readFile" =>
            /\ FileAllowed(Lookup(fs, io[k][2]))
            /\ Before(<<"stat", io[k][2]>>, k)
        /\ io[k][1] = "readdir" => (Lookup(fs, io[k][2]).kind = "dir" /\ DirAllowed(io[k][2]))

\* C22 witness: a finished walk over a file of exactly 10 MiB and a directory
\* that holds 'node_modules' and a directory 'u' has emitted the two files of
\* 'u' and the file beside it.
C22_Witness ==
    /\ pc = "done"
    /\ Len(emitted) = 3
    /\ \E e \in fs : e.kind = "file" /\ e.stats.size = DefaultMaxSize
    /\ \E k \in DOMAIN io : io[k][1] = "stat" /\ NameOf(io[k][2]) = tNodeModules
    /\ \A k \in DOMAIN io :
        (io[k][1] = "readdir" /\ io[k][2] # Root) => NameOf(io[k][2]) # tNodeModules

\* A finished walk has emitted a file without extension or with an
\* upper-case extension, and skipped an entry that is no file.
C22_WitnessNames ==
    /\ pc = "done"
    /\ Len(emitted) = 1
    /\ emitted[1].file \in {tReadme, <<"n", ".", "M", "D">>, <<"a", ".">>}
    /\ \E e \in fs : e.kind = "other"

IoErrors == {"readdir failed", "stat failed", "readFile failed"}

\* A step that lists, stats, reads, evaluates and yields nothing and leaves
\* the error as it is.
NothingMore ==
    /\ error' = error
    /\ io' = io
    /\ emitted' = emitted
    /\ evals' = evals
    /\ yielded' = yielded

\* A step that leaves the records read, evaluated and yielded as they are.
ResultsKept ==
    /\ yielded' = yielded
    /\ emitted' = emitted
    /\ evals' = evals

\* C21: when readdir, stat or readFile fails, the call fails there with that
\* error while the consumer waits for a result; the failed operation is the
\* last one of the call and was tried once; afterwards nothing is listed,
\* stat-ed, read, evaluated or yielded, and what was yielded before stays.
C21_IoErrorEndsTheStream ==
    /\ [](error \in IoErrors =>
            /\ pc = "failed"
            /\ asked = Len(yielded) + 1
            /\ io # <<>>
            /\ error = CASE io[Len(io)][1] = "readdir" -> "readdir failed"
                         [] io[Len(io)][1] = "stat" -> "stat failed"
                         [] io[Len(io)][1] = "readFile" -> "readFile failed"
            /\ \A k \in 1..(Len(io) - 1) : io[k] # io[Len(io)])
    /\ [][(error \in IoErrors) => NothingMore]_vars
    /\ [][(error' \in IoErrors /\ error \notin IoErrors) => ResultsKept]_vars

\* C21 witness: the stat of the second entry has failed after the first
\* entry was read and yielded.
C21_Witness ==
    /\ error = "stat failed"
    /\ Len(yielded) = 1
    /\ Len(io) = 4
    /\ io[3][1] = "readFile"
    /\ io[4][1] = "stat"

\* The listing of a sub-directory has failed.
C21_WitnessReaddir ==
    /\ error = "readdir failed"
    /\ Len(stack) = 2

\* =================================================================
\* The Markdown qualifiers over several files
\* =================================================================

\* The most items of a list
MaxItems == 2

sA == TextSpan(tA)
sTask == TextSpan(<<"[", "x", "]", " ", "b">>)
sStrong == StrongSpan(<<"c">>)
pA == Paragraph(sA)
pTask == Paragraph(sTask)
pStrong == Paragraph(sStrong)

\* The lists: up to MaxItems items of one paragraph, the first of which may
\* also hold a list of one item
InnerLists == {BulletList(<<<<pTask>>>>), OrderedList(<<<<pTask>>>>)}
FirstItems == {<<pA>>, <<pTask>>} \cup {<<pTask, l>> : l \in InnerLists}
MoreItems == {<<pA>>, <<pTask>>}
ItemLists ==
    UNION {{<<first>> \o more : first \in FirstItems, more \in [1..n -> MoreItems]} :
           n \in 0..(MaxItems - 1)}
Lists == UNION {{BulletList(items), OrderedList(items)} : items \in ItemLists}

\* The texts of the files
Docs ==
    {<<>>} \cup {<<l>> : l \in Lists}
    \cup { <<pA>>, <<pTask>>, <<pStrong>>, <<pStrong, pA>>,
           <<Heading("h1", sA)>>, <<Heading("h2", sA), pA>>, <<Heading("h1", sStrong), Heading("h2", sTask)>>,
           <<Blockquote(<<pA>>)>>, <<Blockquote(<<pStrong, Blockquote(<<pA>>)>>), pA>>,
           <<Blockquote(<<BulletList(<<<<pTask>>>>)>>)>>,
           <<BulletList(<<<<Blockquote(<<pTask>>)>>, <<pA>>>>)>>,
           <<BulletList(<<<<pA, BulletList(<<<<pA>>>>)>>, <<pTask>>>>)>>,
           <<OrderedList(<<<<pA, BulletList(<<<<pTask>>>>)>>>>), BulletList(<<<<pTask>>>>)>> }

\* The texts of the second file
OtherDocs ==
    { <<>>, <<Blockquote(<<pStrong>>), Heading("h1", sA)>>,
      <<OrderedList(<<<<pTask, BulletList(<<<<pTask>>>>)>>, <<pTask>>>>)>> }

\* The record the walker yields for a Markdown file
MdRecord(file, data) ==
    [path |-> join(Root, file), file |-> file, stats |-> [size |-> Len(data), mtime |-> SomeTime],
     data |-> data]
First == <<"1", ".", "m", "d">>
Second == <<"2", ".", "m", "d">>

\* A Finder and two files the walker has yielded, none evaluated yet
MarkdownInit ==
    /\ Constructed(<<>>)
    /\ \E d \in Docs : \E e \in OtherDocs : emitted = <<MdRecord(First, d), MdRecord(Second, e)>>
    /\ query = <<>>
    /\ caseSensitive = TRUE
    /\ tz = 0
    /\ source = NoSource
    /\ matched = <<>>
    /\ tokens = <<>>
    /\ ast = Undef
    /\ error = NoError
    /\ pc = "emitted"
    /\ ParserIdle
    /\ dir = Root
    /\ fs = {}
    /\ stack = <<>>
    /\ yielded = <<>>
    /\ io = <<>>
    /\ dirChecked = TRUE
    /\ asked = 0
    /\ stopped = FALSE
    /\ evals = <<>>

\* The closure buildQuery(parser, filter, transformer) returns, called with
\* source: the call of the memoized parser, the preorder walk and the array
\* of transformed nodes
Queried(scope, call, kept) ==
    [call |-> call, kept |-> kept, queryResult |-> transformed(scope, kept.output)]
Walked(scope, closure, call) ==
    Queried(scope, call, preorder(FilterOf(scope), closure, call.returned))
buildQuery(scope, parser, closure, src) ==
    Walked(scope, closure, cache(ParserOf(scope), parser, src.data))

\* What qualifier.query(source) leaves behind
QueryDone(scope, src, q) ==
    /\ source' = src
    /\ parsers' = [parsers EXCEPT ![ParserOf(scope)] = q.call.closure]
    /\ parserCalls' = [parserCalls EXCEPT ![ParserOf(scope)] =
                            [called |-> TRUE, arg |-> src.data, invoked |-> q.call.invoked,
                             returned |-> q.call.returned]]
    /\ filters' = [filters EXCEPT ![scope] = q.kept.closure]
    /\ matched' = <<[scope |-> scope, before |-> filters[scope], nodes |-> q.kept.output,
                     queryResult |-> q.queryResult]>>

\* qualifier.query(source) of _match: a find call evaluates a leaf of a
\* Markdown qualifier on one of the files. The call is synchronous, so the
\* calls of interleaved finds on the Finder happen one after the other, in
\* any order of files and qualifiers.
MarkdownQuery ==
    /\ pc \in {"emitted", "queried"}
    /\ \E k \in DOMAIN emitted : \E scope \in FilterScopes :
            QueryDone(scope, emitted[k],
                      buildQuery(scope, parsers[ParserOf(scope)], filters[scope], emitted[k]))
    /\ pc' = "queried"
    /\ UNCHANGED <<raw, tokens, ast, error, leafFn, result, query, caseSensitive, tz,
                   userQualifiers, registry, parserScopes, parserOperators, grammar, walkVars>>

MarkdownNext == MarkdownQuery

SpecMarkdown == MarkdownInit /\ [][MarkdownNext]_vars

\* The parse mode of the latest query
Mode == ParserOf(matched[1].scope)

\* A step that calls the memoized parser of the mode 'mode' with the
\* input 'arg'
CacheStep ==
    /\ parserCalls'[Mode'].invoked =>
            \/ ~parserCalls[Mode'].called
            \/ parserCalls'[Mode'].arg # parserCalls[Mode'].arg
    /\ (parserCalls[Mode'].called /\ parserCalls'[Mode'].arg # parserCalls[Mode'].arg) =>
            /\ parserCalls'[Mode'].invoked
            /\ parsers'[Mode'].cached = parserCalls'[Mode'].arg
    /\ (parserCalls[Mode'].called /\ parserCalls'[Mode'].arg = parserCalls[Mode'].arg) =>
            /\ ~parserCalls'[Mode'].invoked
            /\ parsers'[Mode'] = parsers[Mode']
    /\ \A mode \in ParseModes \ {Mode'} :
            parsers'[mode] = parsers[mode] /\ parserCalls'[mode] = parserCalls[mode]

\* C24: each memoized parser (block, inline) calls markdown-it only when
\* its input differs from the input of its previous call: a call with the
\* input of the previous call (a further qualifier query on the same file)
\* does not parse and leaves the entry alone, a call with another input
\* parses and overwrites the entry, so calls alternating between two
\* inputs parse every time; the other mode's entry is not touched.
C24_ParsesOnlyWhenInputChanges == [][CacheStep]_vars

\* C24 witness: the second of two queries on the same non-empty file was
\* answered from the entry, after the other file had been parsed in the
\* other mode.
C24_Witness ==
    /\ pc = "queried"
    /\ parserCalls["block"].called /\ ~parserCalls["block"].invoked
    /\ parserCalls["block"].arg # <<>>
    /\ parserCalls["block"].arg = source.data
    /\ parserCalls["inline"].invoked
    /\ parserCalls["inline"].arg # source.data

\* C29: every call of a memoized parser returns the token list markdown-it
\* gives for the input of that call, the first call and the empty text
\* included.
C29_ReturnsWhatTheParserReturns ==
    \A mode \in ParseModes :
        parserCalls[mode].called =>
            parserCalls[mode].returned = Underlying(mode, parserCalls[mode].arg)

\* What holds instead: a call returns the list of its input unless it is a
\* call with the empty text that no call with another text preceded; that
\* call returns [] without parsing.
C29_ExceptEmptyTextFirst ==
    \A mode \in ParseModes :
        parserCalls[mode].called =>
            \/ parserCalls[mode].returned = Underlying(mode, parserCalls[mode].arg)
            \/ /\ parserCalls[mode].arg = <<>>
               /\ ~parserCalls[mode].invoked
               /\ parserCalls[mode].returned = <<>>
               /\ parsers[mode] = NewCache

\* The nodes of a text that lie in a paragraph whose list item is an item
\* of a bullet list, in preorder: the paragraph_open, the inline token and
\* its children
RECURSIVE TaskNodes(_, _), ItemTaskNodes(_, _)
BlockTaskNodes(block, inBulletItem) ==
    CASE block.b = "paragraph" ->
            IF inBulletItem
            THEN <<MdToken(Open("paragraph"), "p", <<>>, <<>>), InlineToken(block.span)>>
                 \o SpanTokens(block.span)
            ELSE <<>>
      [] block.b = "heading" -> <<>>
      [] block.b = "bullet_list" -> ItemTaskNodes(block.items, TRUE)
      [] block.b = "ordered_list" -> ItemTaskNodes(block.items, FALSE)
      [] block.b = "blockquote" -> TaskNodes(block.blocks, inBulletItem)
TaskNodes(blocks, inBulletItem) ==
    IF blocks = <<>> THEN <<>>
    ELSE BlockTaskNodes(blocks[1], inBulletItem) \o TaskNodes(Tail(blocks), inBulletItem)
ItemTaskNodes(items, bullet) ==
    IF items = <<>> THEN <<>>
    ELSE TaskNodes(items[1], bullet) \o ItemTaskNodes(Tail(items), bullet)

\* C25: on the tokens of every text, lists nested in list items included,
\* wrappedByMulti('bullet_list', 'list_item', 'paragraph') keeps exactly the
\* nodes inside a paragraph of an item of a bullet list: no item of an
\* ordered list, and every item of a bullet list.
C25_KeepsExactlyTheBulletItemParagraphs ==
    (pc = "queried" /\ matched[1].scope = "task") =>
        matched[1].nodes = TaskNodes(source.data, FALSE)

\* The result of a qualifier's query on a file when nothing was evaluated
\* before: new filters, and the tokens markdown-it gives for the file
Alone(scope, src) ==
    transformed(scope, preorder(FilterOf(scope), NewFilter(scope),
                                Underlying(ParserOf(scope), src.data)).output)

\* C28: the result of a Markdown qualifier on a file is the one it has when
\* the file is evaluated alone, whatever files and qualifiers were evaluated
\* before on the same Finder and in whatever order the evaluations of
\* interleaved calls happen.
C28_ResultIndependentOfEarlierFiles ==
    pc = "queried" => matched[1].queryResult = Alone(matched[1].scope, source)

\* C28 witness: a filter that started from counters an earlier file had
\* left behind has given a non-empty result.
C28_Witness ==
    /\ pc = "queried"
    /\ matched[1].before # NewFilter(matched[1].scope)
    /\ matched[1].queryResult # <<>>
    /\ parserCalls["block"].invoked

\* The tasks of the second file were found after the first file, another
\* text, had been evaluated by the same qualifier.
C28_WitnessSecondFile ==
    /\ pc = "queried"
    /\ matched[1].scope = "blockquote"
    /\ source = emitted[2]
    /\ parserCalls["block"].invoked
    /\ parsers["inline"].cached = emitted[1].data
    /\ emitted[1].data # emitted[2].data
    /\ matched[1].queryResult # <<>>

====
